---- MODULE Spec2Model ----
(***************************************************************************)
(* Model of typenames (src/typenames.py): parse_type_tree turns a type     *)
(* annotation into a tree of nodes, str() of the tree renders it under a   *)
(* TypenamesConfig.  Text is modelled character by character as TLA+       *)
(* strings; host objects (classes, typing aliases, unions) are records     *)
(* that carry what the code reads from them: get_origin, get_args,         *)
(* type(tp), __module__, __qualname__, __name__, _name.                    *)
(***************************************************************************)
EXTENDS Integers, Sequences, FiniteSets, TLC

VARIABLES pc, tp, config, kwargs, tree, result

vars == <<pc, tp, config, kwargs, tree, result>>

(***************************************************************************)
(* Strings                                                                 *)
(***************************************************************************)
Char(s, i) == SubSeq(s, i, i)

DropFirst(s, n) == SubSeq(s, n + 1, Len(s))

StartsWith(s, p) == Len(s) >= Len(p) /\ SubSeq(s, 1, Len(p)) = p

\* str.join
RECURSIVE join(_, _)
join(sep, strs) ==
    IF Len(strs) = 0 THEN ""
    ELSE IF Len(strs) = 1 THEN strs[1]
    ELSE strs[1] \o sep \o join(sep, Tail(strs))

\* first index >= i of a "." in s, 0 when there is none
RECURSIVE find_dot(_, _)
find_dot(s, i) ==
    IF i > Len(s) THEN 0
    ELSE IF Char(s, i) = "." THEN i
    ELSE find_dot(s, i + 1)

\* last index of a "." in s, 0 when there is none
RECURSIVE rfind_dot(_, _)
rfind_dot(s, i) ==
    IF i < 1 THEN 0
    ELSE IF Char(s, i) = "." THEN i
    ELSE rfind_dot(s, i - 1)

\* str.replace(".", r"\.")
RECURSIVE replace_dot(_)
replace_dot(s) ==
    IF Len(s) = 0 THEN ""
    ELSE (IF Char(s, 1) = "." THEN "\\." ELSE Char(s, 1)) \o replace_dot(DropFirst(s, 1))

(***************************************************************************)
(* Regular expressions: a compiled pattern is a record holding its source  *)
(* text.  match_end gives the end of the match of the pattern at the start *)
(* of s, or -1; every pattern of the program is anchored with ^, so        *)
(* pattern.sub("", s) removes at most that one match.                      *)
(***************************************************************************)
WordChars ==
    {"a","b","c","d","e","f","g","h","i","j","k","l","m","n","o","p","q","r","s","t",
     "u","v","w","x","y","z","A","B","C","D","E","F","G","H","I","J","K","L","M","N",
     "O","P","Q","R","S","T","U","V","W","X","Y","Z","0","1","2","3","4","5","6","7",
     "8","9","_"}

re_compile(source) == [pattern |-> source]

RE_COLLECTIONS == "^collections\\.(abc\\.)?"

RE_ALL == "^(<?\\w+>?\\.)+"

\* end of the longest run of \w characters of s that starts at index i (i - 1 when empty)
RECURSIVE word_end(_, _)
word_end(s, i) ==
    IF i <= Len(s) /\ Char(s, i) \in WordChars THEN word_end(s, i + 1) ELSE i - 1

\* one repetition of the group <?\w+>?\. starting at index i: its end, or -1
group_end(s, i) ==
    LET a == IF i <= Len(s) /\ Char(s, i) = "<" THEN i + 1 ELSE i
        w == word_end(s, a)
        b == IF w + 1 <= Len(s) /\ Char(s, w + 1) = ">" THEN w + 1 ELSE w
    IN  IF w >= a /\ b + 1 <= Len(s) /\ Char(s, b + 1) = "." THEN b + 1 ELSE -1

\* greedy (...)+ : end of the last repetition, starting after index j
RECURSIVE groups_end(_, _)
groups_end(s, j) ==
    LET e == group_end(s, j + 1)
    IN  IF e = -1 THEN j ELSE groups_end(s, e)

\* a pattern made of literal characters, escaped characters and "." wildcards:
\* match source[i..] against s after index j
RECURSIVE literal_end(_, _, _, _)
literal_end(source, i, s, j) ==
    IF i > Len(source) THEN j
    ELSE IF Char(source, i) = "\\"
    THEN IF j + 1 <= Len(s) /\ Char(s, j + 1) = Char(source, i + 1)
         THEN literal_end(source, i + 2, s, j + 1)
         ELSE -1
    ELSE IF j + 1 <= Len(s) /\ (Char(source, i) = "." \/ Char(s, j + 1) = Char(source, i))
         THEN literal_end(source, i + 1, s, j + 1)
         ELSE -1

match_end(p, s) ==
    IF p.pattern = RE_ALL
    THEN (IF groups_end(s, 0) = 0 THEN -1 ELSE groups_end(s, 0))
    ELSE IF p.pattern = RE_COLLECTIONS
    THEN (IF StartsWith(s, "collections.")
          THEN (IF StartsWith(DropFirst(s, 12), "abc.") THEN 16 ELSE 12)
          ELSE -1)
    ELSE literal_end(p.pattern, 2, s, 0)

\* pattern.sub("", s)
sub(p, s) == IF match_end(p, s) = -1 THEN s ELSE DropFirst(s, match_end(p, s))

(***************************************************************************)
(* Configuration (TypenamesConfig)                                         *)
(***************************************************************************)
UnionSyntax == {"as_given", "or_operator", "special_form"}

OptionalSyntax == {"as_given", "or_operator", "optional_special_form", "union_special_form"}

StandardCollectionSyntax == {"as_given", "standard_class", "typing_module"}

\* an entry of remove_modules: a module name (str) or a compiled pattern (re.Pattern)
Module(name) == [type |-> "str", value |-> name]

Pattern(source) == [type |-> "re.Pattern", value |-> source]

\* the default list without its builtins entry
DEFAULT_REMOVE_MODULES_without_builtins ==
    << Module("__main__"), Pattern(RE_COLLECTIONS), Module("contextlib"),
       Module("re"), Module("types"), Module("typing") >>

DEFAULT_REMOVE_MODULES ==
    << Module("__main__"), Module("builtins"), Pattern(RE_COLLECTIONS), Module("contextlib"),
       Module("re"), Module("types"), Module("typing") >>

REMOVE_ALL_MODULES == << Pattern(RE_ALL) >>

None == [k |-> "None"]

ValueError == [k |-> "ValueError"]

\* the error a node raises when asked what it was never meant to answer
NotImplementedError == [k |-> "NotImplementedError"]

Get(kw, field, default) == IF field \in DOMAIN kw THEN kw[field] ELSE default

\* TypenamesConfig with a given remove_modules added to the defaults instead of replacing them
TypenamesConfig_additive(kw) ==
    LET c == [union_syntax |-> Get(kw, "union_syntax", "as_given"),
              optional_syntax |-> Get(kw, "optional_syntax", "as_given"),
              standard_collection_syntax |-> Get(kw, "standard_collection_syntax", "as_given"),
              remove_modules |-> DEFAULT_REMOVE_MODULES \o Get(kw, "remove_modules", << >>)]
    IN  IF /\ c.union_syntax \in UnionSyntax
           /\ c.optional_syntax \in OptionalSyntax
           /\ c.standard_collection_syntax \in StandardCollectionSyntax
        THEN c
        ELSE ValueError

\* TypenamesConfig without __post_init__: the fields are stored as given
TypenamesConfig_unchecked(kw) ==
    [union_syntax |-> Get(kw, "union_syntax", "as_given"),
     optional_syntax |-> Get(kw, "optional_syntax", "as_given"),
     standard_collection_syntax |-> Get(kw, "standard_collection_syntax", "as_given"),
     remove_modules |-> Get(kw, "remove_modules", DEFAULT_REMOVE_MODULES)]

\* TypenamesConfig(**kw): field defaults, then __post_init__ converts the three syntax
\* fields to their enumerations, which raises ValueError for a value outside them
TypenamesConfig(kw) ==
    LET c == [union_syntax |-> Get(kw, "union_syntax", "as_given"),
              optional_syntax |-> Get(kw, "optional_syntax", "as_given"),
              standard_collection_syntax |-> Get(kw, "standard_collection_syntax", "as_given"),
              remove_modules |-> Get(kw, "remove_modules", DEFAULT_REMOVE_MODULES)]
    IN  IF /\ c.union_syntax \in UnionSyntax
           /\ c.optional_syntax \in OptionalSyntax
           /\ c.standard_collection_syntax \in StandardCollectionSyntax
        THEN c
        ELSE ValueError

\* dataclasses.replace(config, **kw): a new TypenamesConfig from config's fields with kw on top
replace(c, kw) ==
    TypenamesConfig([f \in {"union_syntax", "optional_syntax", "standard_collection_syntax",
                            "remove_modules"} |-> Get(kw, f, c[f])])

\* remove_modules_patterns without the escaping of the dots of a module name
remove_modules_patterns_dots_unescaped(c) ==
    [i \in 1..Len(c.remove_modules) |->
        IF c.remove_modules[i].type = "re.Pattern"
        THEN re_compile(c.remove_modules[i].value)
        ELSE re_compile("^" \o c.remove_modules[i].value \o "\\.")]

\* TypenamesConfig.remove_modules_patterns: the entries as compiled patterns, in list order
remove_modules_patterns(c) ==
    [i \in 1..Len(c.remove_modules) |->
        IF c.remove_modules[i].type = "re.Pattern"
        THEN re_compile(c.remove_modules[i].value)
        ELSE re_compile("^" \o replace_dot(c.remove_modules[i].value) \o "\\.")]

\* the loop left after its first pattern
sub_each_first_only(patterns, s) ==
    IF Len(patterns) = 0 THEN s ELSE sub(Head(patterns), s)

\* for pattern in patterns: s = pattern.sub("", s)
RECURSIVE sub_each(_, _)
sub_each(patterns, s) ==
    IF Len(patterns) = 0 THEN s
    ELSE sub_each(Tail(patterns), sub(Head(patterns), s))

\* BaseNode.process_module_prefix
process_module_prefix(c, module_prefix) == sub_each(remove_modules_patterns(c), module_prefix)

(***************************************************************************)
(* Host objects.  A class carries __module__, __qualname__ and __name__;   *)
(* a typing special form carries __module__ and _name; a subscripted       *)
(* generic carries type(tp), its origin (get_origin), its arguments        *)
(* (get_args) and, for a typing alias, _name.                              *)
(***************************************************************************)
Class(module, qualname, name) ==
    [k |-> "class", module |-> module, qualname |-> qualname, name |-> name]

SpecialForm(name) == [k |-> "special_form", module |-> "typing", name |-> name]

\* typing.ForwardRef(arg); its class attribute __module__ is "typing"
ForwardRef(arg) == [k |-> "ForwardRef", module |-> "typing", forward_arg |-> arg]

Ellipsis == [k |-> "Ellipsis"]

\* an unsubscripted typing alias such as typing.Dict
TypingAlias(name, origin, nparams) ==
    [k |-> "typing_alias", module |-> "typing", alias_name |-> name, origin |-> origin,
     nparams |-> nparams]

\* a subscripted generic: typing.X[args], cls[args], typing.Union[args], a | b
GenericAlias(type, origin, args, name) ==
    [k |-> "alias", type |-> type, origin |-> origin, args |-> args, alias_name |-> name]

\* the bracketed parameter list of a callable: a Python list of types
ParamsList(items) == [k |-> "list", items |-> items]

int == Class("builtins", "int", "int")

str == Class("builtins", "str", "str")

float == Class("builtins", "float", "float")

NoneType == Class("builtins", "NoneType", "NoneType")

typing_Any == SpecialForm("Any")

typing_Union == SpecialForm("Union")

types_UnionType == Class("types", "UnionType", "UnionType")

\* classes of the tests (src/tests/test_typenames.py)
MyClass == Class("tests.test_typenames", "MyClass", "MyClass")

InnerClass == Class("tests.test_typenames", "OuterClass.InnerClass", "InnerClass")

OtherModuleClass == Class("other_module", "OtherModuleClass", "OtherModuleClass")

FnScopeClass ==
    Class("tests.test_typenames", "test_remove_modules.<locals>.FnScopeClass", "FnScopeClass")

MainClass == Class("__main__", "MainClass", "MainClass")

MyGeneric == Class("tests.test_typenames", "MyGeneric", "MyGeneric")

OR_OPERATOR_SUPPORTED == TRUE

get_origin(t) == IF t.k = "alias" THEN t.origin ELSE None

get_args(t) == IF t.k = "alias" THEN t.args ELSE << >>

\* typing.Union[params] and typing.Optional[x]
Union(params) == GenericAlias("typing._UnionGenericAlias", typing_Union, params, "Union")

Optional(x) == GenericAlias("typing._UnionGenericAlias", typing_Union, <<x, NoneType>>, "Optional")

\* a | b | ...
OrUnion(params) == GenericAlias("types.UnionType", types_UnionType, params, "")

(***************************************************************************)
(* The collection-alias registry                                           *)
(***************************************************************************)
builtins(name) == Class("builtins", name, name)

collections(name) == Class("collections", name, name)

collections_abc(name) == Class("collections.abc", name, name)

Registry ==
    << <<builtins("dict"), "Dict", 2>>,
       <<builtins("list"), "List", 1>>,
       <<builtins("set"), "Set", 1>>,
       <<builtins("frozenset"), "FrozenSet", 1>>,
       <<builtins("tuple"), "Tuple", -1>>,
       <<collections("defaultdict"), "DefaultDict", 2>>,
       <<collections("OrderedDict"), "OrderedDict", 2>>,
       <<collections("ChainMap"), "ChainMap", 2>>,
       <<collections("Counter"), "Counter", 1>>,
       <<collections("deque"), "Deque", 1>>,
       <<collections_abc("Awaitable"), "Awaitable", 1>>,
       <<collections_abc("Coroutine"), "Coroutine", 3>>,
       <<collections_abc("AsyncIterable"), "AsyncIterable", 1>>,
       <<collections_abc("AsyncIterator"), "AsyncIterator", 1>>,
       <<collections_abc("AsyncGenerator"), "AsyncGenerator", 2>>,
       <<collections_abc("Iterable"), "Iterable", 1>>,
       <<collections_abc("Iterator"), "Iterator", 1>>,
       <<collections_abc("Generator"), "Generator", 3>>,
       <<collections_abc("Reversible"), "Reversible", 1>>,
       <<collections_abc("Collection"), "Collection", 1>>,
       <<collections_abc("Container"), "Container", 1>>,
       <<collections_abc("Callable"), "Callable", 2>>,
       <<collections_abc("Set"), "AbstractSet", 1>>,
       <<collections_abc("MutableSet"), "MutableSet", 1>>,
       <<collections_abc("Mapping"), "Mapping", 2>>,
       <<collections_abc("MutableMapping"), "MutableMapping", 2>>,
       <<collections_abc("Sequence"), "Sequence", 1>>,
       <<collections_abc("MutableSequence"), "MutableSequence", 1>>,
       <<collections_abc("ByteString"), "ByteString", 0>>,
       <<collections_abc("MappingView"), "MappingView", 1>>,
       <<collections_abc("KeysView"), "KeysView", 1>>,
       <<collections_abc("ItemsView"), "ItemsView", 2>>,
       <<collections_abc("ValuesView"), "ValuesView", 1>>,
       <<Class("contextlib", "AbstractContextManager", "AbstractContextManager"),
         "ContextManager", 1>>,
       <<Class("contextlib", "AbstractAsyncContextManager", "AbstractAsyncContextManager"),
         "AsyncContextManager", 1>>,
       <<Class("re", "Pattern", "Pattern"), "Pattern", 1>>,
       <<Class("re", "Match", "Match"), "Match", 1>>
    >>

STANDARD_COLLECTION_CLASSES == {Registry[i][1] : i \in 1..Len(Registry)}

\* typing.<name>, e.g. typing_("Dict") is typing.Dict
typing_(name) ==
    LET i == CHOOSE j \in 1..Len(Registry) : Registry[j][2] = name
    IN  TypingAlias(name, Registry[i][1], Registry[i][3])

\* the registry with collections.abc.Set entered under typing.Set, the alias of builtins set
MAPPING_Set_for_AbstractSet ==
    [c \in STANDARD_COLLECTION_CLASSES |->
        LET i == CHOOSE j \in 1..Len(Registry) : Registry[j][1] = c
        IN  IF Registry[i][2] = "AbstractSet" THEN typing_("Set") ELSE typing_(Registry[i][2])]

STANDARD_COLLECTION_TO_TYPING_ALIAS_MAPPING ==
    [c \in STANDARD_COLLECTION_CLASSES |->
        LET i == CHOOSE j \in 1..Len(Registry) : Registry[j][1] = c
        IN  typing_(Registry[i][2])]

\* typing.X[args]: the alias keeps the name of typing.X; typing.Callable[...] has its own class
typing_subscript(alias, args) ==
    GenericAlias(IF alias.alias_name = "Callable" THEN "typing._CallableGenericAlias"
                 ELSE "typing._GenericAlias",
                 alias.origin, args, alias.alias_name)

\* cls[args] (PEP 585); collections.abc.Callable[...] has its own class
class_subscript(cls, args) ==
    GenericAlias(IF cls = collections_abc("Callable") THEN "collections.abc._CallableGenericAlias"
                 ELSE "types.GenericAlias",
                 cls, args, "")

(***************************************************************************)
(* Classification predicates                                               *)
(***************************************************************************)
is_union_special_form(t) == get_origin(t) = typing_Union

\* is_union_or_operator on a host taken not to support the | operator
is_union_or_operator_unsupported(t) == FALSE

is_union_or_operator(t) == OR_OPERATOR_SUPPORTED /\ t.k = "alias" /\ t.type = "types.UnionType"

is_standard_collection_type_alias(t) ==
    get_origin(t) \in STANDARD_COLLECTION_CLASSES /\ t.type # "typing._GenericAlias"

\* is_typing_module_collection_alias without its test of type(tp)
is_typing_module_collection_alias_any_type(t) == get_origin(t) \in STANDARD_COLLECTION_CLASSES

is_typing_module_collection_alias(t) ==
    get_origin(t) \in STANDARD_COLLECTION_CLASSES /\ t.type = "typing._GenericAlias"

(***************************************************************************)
(* Nodes                                                                   *)
(***************************************************************************)
TypeNode(t, c) == [node |-> "TypeNode", tp |-> t, config |-> c]

GenericNode(t, c, origin, arg_nodes) ==
    [node |-> "GenericNode", tp |-> t, config |-> c, origin |-> origin, arg_nodes |-> arg_nodes]

ParamsListNode(t, c, arg_nodes) ==
    [node |-> "ParamsListNode", tp |-> t, config |-> c, arg_nodes |-> arg_nodes]

LiteralNode(t, c) == [node |-> "LiteralNode", tp |-> t, config |-> c]

\* the test for literals without Enum among the types it lists
is_literal_value_without_Enum(t) == (t.k = "value" /\ t.type # "Enum") \/ t = None

\* the values parse_type_tree takes for literals: int, bytes, str, Enum, bool instances and None
is_literal_value(t) == t.k = "value" \/ t = None

\* parse_type_tree(tp, config, **kw); ValueError when the configuration is rejected
RECURSIVE parse_type_tree(_, _, _)
\* parse_type_tree handing its configuration on to the items of a parameter list
parse_type_tree_list_inherits(t, cfg, kw) ==
    LET c == IF cfg = None THEN TypenamesConfig(kw) ELSE replace(cfg, kw)
        origin == get_origin(t)
        args == get_args(t)
    IN  IF c = ValueError THEN ValueError
        ELSE IF origin # None
        THEN GenericNode(t, c, origin,
                         [i \in 1..Len(args) |-> parse_type_tree(args[i], c, << >>)])
        ELSE IF t.k = "list"
        THEN ParamsListNode(t, c,
                            [i \in 1..Len(t.items) |-> parse_type_tree(t.items[i], c, << >>)])
        ELSE IF is_literal_value(t)
        THEN LiteralNode(t, c)
        ELSE TypeNode(t, c)

parse_type_tree(t, cfg, kw) ==
    LET c == IF cfg = None THEN TypenamesConfig(kw) ELSE replace(cfg, kw)
        origin == get_origin(t)
        args == get_args(t)
    IN  IF c = ValueError THEN ValueError
        ELSE IF origin # None
        THEN GenericNode(t, c, origin,
                         [i \in 1..Len(args) |-> parse_type_tree(args[i], c, << >>)])
        ELSE IF t.k = "list"
        THEN ParamsListNode(t, c,
                            [i \in 1..Len(t.items) |-> parse_type_tree(t.items[i], None, << >>)])
        ELSE IF is_literal_value(t)
        THEN LiteralNode(t, c)
        ELSE TypeNode(t, c)

\* node.is_none_type with a GenericNode reporting true when it has a null argument
is_none_type_of_optional(n) ==
    CASE n.node = "TypeNode" -> n.tp = NoneType
      [] n.node = "GenericNode" -> \E i \in 1..Len(n.arg_nodes) : n.arg_nodes[i].tp = NoneType
      [] n.node \in {"ParamsListNode", "LiteralNode"} -> NotImplementedError

\* node.is_none_type; the property of ParamsListNode and LiteralNode raises
\* NotImplementedError in place of returning a value
is_none_type(n) ==
    CASE n.node = "TypeNode" -> n.tp = NoneType
      [] n.node = "GenericNode" -> FALSE
      [] n.node \in {"ParamsListNode", "LiteralNode"} -> NotImplementedError

\* the null member is never seen: an optional is taken for a regular union
any_is_none_type_never(arg_nodes) == FALSE

\* any(a.is_none_type for a in arg_nodes)
any_is_none_type(arg_nodes) == \E i \in 1..Len(arg_nodes) : is_none_type(arg_nodes[i])

\* [a for a in arg_nodes if a.tp is not type(None)]
not_none(arg_nodes) == SelectSeq(arg_nodes, LAMBDA a : a.tp # NoneType)

\* a forward reference with a dotted path: the index of its last ".", else 0
forward_cut(t) ==
    IF t.k = "ForwardRef" /\ find_dot(t.forward_arg, 1) # 0
    THEN rfind_dot(t.forward_arg, Len(t.forward_arg))
    ELSE 0

\* TypeNode.__str__: the module prefix before trimming
module_prefix_of(t) ==
    IF forward_cut(t) # 0 THEN SubSeq(t.forward_arg, 1, forward_cut(t))
    ELSE IF "module" \in DOMAIN t THEN t.module \o "."
    ELSE ""

\* TypeNode.__str__: the type name before trimming
type_name_of(t) ==
    IF t.k = "Ellipsis" THEN "..."
    ELSE IF t = NoneType THEN "None"
    ELSE IF t = typing_Any THEN "Any"
    ELSE IF t.k = "ForwardRef" THEN DropFirst(t.forward_arg, forward_cut(t))
    ELSE IF "qualname" \in DOMAIN t THEN t.qualname
    ELSE IF "name" \in DOMAIN t THEN t.name
    ELSE t.repr

\* TypeNode.__str__
TypeNode_str(n) ==
    process_module_prefix(n.config, module_prefix_of(n.tp))
        \o sub_each(remove_modules_patterns(n.config), type_name_of(n.tp))

\* LiteralNode.__str__ without its Enum case
LiteralNode_str_repr_only(n) == IF n.tp = None THEN "None" ELSE n.tp.repr

\* LiteralNode.__str__
LiteralNode_str(n) ==
    IF n.tp # None /\ n.tp.type = "Enum"
    THEN n.tp.class_name \o "." \o n.tp.name
    ELSE IF n.tp = None THEN "None" ELSE n.tp.repr

\* the head of a GenericNode: [ret |-> TRUE] when __str__ returns the " | " form at once,
\* else the module prefix, the name and the argument nodes of head[args]
HeadForm(prefix, name, arg_nodes) ==
    [ret |-> FALSE, origin_module_prefix |-> prefix, origin_name |-> name,
     arg_nodes |-> arg_nodes]

OrForm(arg_nodes) ==
    [ret |-> TRUE, origin_module_prefix |-> "", origin_name |-> "", arg_nodes |-> arg_nodes]

\* optional_args without the union around several members
optional_args_unwrapped(n) == not_none(n.arg_nodes)

\* optional_args with a union node also around a single member
optional_args_always_wrapped(n) ==
    LET rest == not_none(n.arg_nodes)
    IN  << GenericNode(Union([i \in 1..Len(rest) |-> rest[i].tp]), n.config,
                       typing_Union, rest) >>

\* typing.Optional takes a single parameter: several members are put in a union node
optional_args(n) ==
    LET rest == not_none(n.arg_nodes)
    IN  IF Len(rest) > 1
        THEN << GenericNode(Union([i \in 1..Len(rest) |-> rest[i].tp]), n.config,
                            typing_Union, rest) >>
        ELSE rest

\* the branches of GenericNode.__str__
GenericNode_head(n) ==
    LET c == n.config
        arg_nodes == n.arg_nodes
    IN  IF is_union_special_form(n.tp)
        THEN IF any_is_none_type(arg_nodes)
             THEN IF c.optional_syntax = "or_operator" THEN OrForm(arg_nodes)
                  ELSE IF c.optional_syntax = "union_special_form"
                  THEN HeadForm("typing.", "Union", arg_nodes)
                  ELSE HeadForm("typing.", "Optional", optional_args(n))
             ELSE IF c.union_syntax = "or_operator" THEN OrForm(arg_nodes)
                  ELSE HeadForm("typing.", "Union", arg_nodes)
        ELSE IF is_union_or_operator(n.tp)
        THEN IF any_is_none_type(arg_nodes) /\ c.optional_syntax = "optional_special_form"
             THEN HeadForm("typing.", "Optional", optional_args(n))
             ELSE IF any_is_none_type(arg_nodes) /\ c.optional_syntax = "union_special_form"
             THEN HeadForm("typing.", "Union", arg_nodes)
             ELSE IF c.union_syntax = "special_form"
             THEN HeadForm("typing.", "Union", arg_nodes)
             ELSE OrForm(arg_nodes)
        ELSE IF is_standard_collection_type_alias(n.tp)
        THEN IF c.standard_collection_syntax = "typing_module"
             THEN HeadForm("typing.",
                        STANDARD_COLLECTION_TO_TYPING_ALIAS_MAPPING[get_origin(n.tp)].alias_name,
                        arg_nodes)
             ELSE HeadForm(n.origin.module \o ".", n.origin.qualname, arg_nodes)
        ELSE IF is_typing_module_collection_alias(n.tp)
        THEN IF c.standard_collection_syntax = "standard_class"
             THEN HeadForm(n.origin.module \o ".", n.origin.qualname, arg_nodes)
             ELSE HeadForm("typing.", n.tp.alias_name, arg_nodes)
        ELSE HeadForm(IF "module" \in DOMAIN n.origin THEN n.origin.module \o "." ELSE "",
                   n.origin.name, arg_nodes)

\* str(node)
RECURSIVE Str(_)
\* str(node) with the arguments of a generic joined by "," in place of ", "
Str_comma_only(n) ==
    IF n.node = "TypeNode" THEN TypeNode_str(n)
    ELSE IF n.node = "LiteralNode" THEN LiteralNode_str(n)
    ELSE IF n.node = "ParamsListNode"
    THEN "[" \o join(", ", [i \in 1..Len(n.arg_nodes) |-> Str(n.arg_nodes[i])]) \o "]"
    ELSE LET h == GenericNode_head(n)
             args == [i \in 1..Len(h.arg_nodes) |-> Str(h.arg_nodes[i])]
         IN  IF h.ret THEN join(" | ", args)
             ELSE process_module_prefix(n.config, h.origin_module_prefix)
                      \o h.origin_name \o "[" \o join(",", args) \o "]"

Str(n) ==
    IF n.node = "TypeNode" THEN TypeNode_str(n)
    ELSE IF n.node = "LiteralNode" THEN LiteralNode_str(n)
    ELSE IF n.node = "ParamsListNode"
    THEN "[" \o join(", ", [i \in 1..Len(n.arg_nodes) |-> Str(n.arg_nodes[i])]) \o "]"
    ELSE LET h == GenericNode_head(n)
             args == [i \in 1..Len(h.arg_nodes) |-> Str(h.arg_nodes[i])]
         IN  IF h.ret THEN join(" | ", args)
             ELSE process_module_prefix(n.config, h.origin_module_prefix)
                      \o h.origin_name \o "[" \o join(", ", args) \o "]"

(***************************************************************************)
(* Inputs: bounded sets of type annotations and keyword overrides          *)
(***************************************************************************)
MaxUnionArgs == 3

MaxTupleArgs == 2

MaxRules == 2

\* the tuples of length n over S
RECURSIVE Tuples(_, _)
Tuples(S, n) ==
    IF n = 0 THEN { << >> }
    ELSE { Append(t, x) : t \in Tuples(S, n - 1), x \in S }

Distinct(t) == \A i, j \in 1..Len(t) : i # j => t[i] # t[j]

\* members of the unions: typing.Union and | flatten nested unions and drop duplicates, so
\* the members of a union are distinct and none is a union
\* (a | b with a typing alias for a or b is a typing.Union, so the generic member is list[...])
UnionMembers == {int, str, NoneType, class_subscript(builtins("list"), <<Optional(int)>>)}

UnionArgs ==
    UNION { {t \in Tuples(UnionMembers, n) : Distinct(t)} : n \in 2..MaxUnionArgs }

UnionTypes ==
    {IF Len(a) = 2 /\ a[2] = NoneType THEN Optional(a[1]) ELSE Union(a) : a \in UnionArgs}
        \cup {OrUnion(a) : a \in UnionArgs}

\* keyword overrides: each field absent or given
Kw(field, values) == { << >> } \cup { field :> v : v \in values }

Kwargs(us, os, cs, rm) ==
    { a @@ b @@ c @@ d : a \in Kw("union_syntax", us), b \in Kw("optional_syntax", os),
                         c \in Kw("standard_collection_syntax", cs),
                         d \in Kw("remove_modules", rm) }

UnionKwargs ==
    Kwargs({"or_operator", "special_form", "bogus"},
           {"or_operator", "optional_special_form", "union_special_form"},
           {}, { << >> })

\* a class of a private submodule of a default-list module (re._parser.State of CPython)
re_parser_State == Class("re._parser", "State", "State")

PlainTypes ==
    {int, str, float, NoneType, typing_Any, MyClass, InnerClass, OtherModuleClass, FnScopeClass,
     MainClass, re_parser_State}

LeafTypes == PlainTypes \cup {Ellipsis, ForwardRef("MyClass"), ForwardRef("enum.Enum")}

\* the arguments of a collection of the registry: as many as the typing alias takes,
\* any number for tuple
CollectionArgs(nparams) ==
    IF nparams = -1 THEN UNION { Tuples({str, int}, n) : n \in 1..MaxTupleArgs }
    ELSE Tuples({str, int}, nparams)

Families == {i \in 1..Len(Registry) : Registry[i][3] # 0 /\ Registry[i][2] # "Callable"}

\* every family of the registry in its typing spelling and in its class spelling
CollectionTypes ==
    UNION { { typing_subscript(typing_(Registry[i][2]), a) : a \in CollectionArgs(Registry[i][3]) }
            \cup { class_subscript(Registry[i][1], a) : a \in CollectionArgs(Registry[i][3]) }
          : i \in Families }

CallableArgs ==
    { <<p, r>> : p \in {ParamsList(<< >>), ParamsList(<<int>>), ParamsList(<<MyClass>>),
                         ParamsList(<<int, MyClass>>), Ellipsis},
                 r \in {str, MyClass} }

CallableTypes ==
    { typing_subscript(typing_("Callable"), a) : a \in CallableArgs }
        \cup { class_subscript(collections_abc("Callable"), a) : a \in CallableArgs }

typing_List(x) == typing_subscript(typing_("List"), <<x>>)

NestedTypes ==
    { typing_List(MyClass),
      Optional(typing_List(MyClass)),
      typing_List(Optional(int)),
      typing_List(ForwardRef("MyClass")),
      typing_List(ForwardRef("enum.Enum")),
      typing_subscript(typing_("Dict"), <<str, typing_Any>>),
      GenericAlias("typing._GenericAlias", MyGeneric, <<int>>, ""),
      class_subscript(builtins("list"), <<class_subscript(builtins("dict"), <<str, int>>)>>),
      class_subscript(builtins("list"), <<typing_subscript(typing_("Tuple"), <<int, str>>)>>),
      class_subscript(builtins("dict"), <<str, typing_List(InnerClass)>>),
      class_subscript(collections("Counter"), <<OtherModuleClass>>) }

Types == LeafTypes \cup CollectionTypes \cup CallableTypes \cup NestedTypes

\* a configuration object of the caller: TypenamesConfig(remove_modules=["tests.test_typenames"])
CallerConfig == TypenamesConfig("remove_modules" :> << Module("tests.test_typenames") >>)

MainKwargs ==
    Kwargs({}, {}, {"standard_class", "typing_module", "bogus"},
           { << >>, REMOVE_ALL_MODULES,
             DEFAULT_REMOVE_MODULES \o << Module("tests.test_typenames") >> })

\* remove_modules lists of up to MaxRules different entries, in every order
RulePool ==
    {Module("tests"), Module("tests.test_typenames"), Module("typing"), Module("builtins"),
     Pattern(RE_ALL)}

RuleLists == UNION { {l \in Tuples(RulePool, n) : Distinct(l)} : n \in 0..MaxRules }

OrderTypes == {int, typing_Any, MyClass, InnerClass, typing_List(MyClass), Optional(MyClass)}

OrderKwargs == Kwargs({"bogus"}, {}, {}, RuleLists)

(***************************************************************************)
(* The calls: typenames(tp, config, **kwargs) parses, then renders         *)
(***************************************************************************)
Init ==
    /\ pc = "idle"
    /\ tp = None
    /\ config = None
    /\ kwargs = << >>
    /\ tree = None
    /\ result = ""

\* a caller enters typenames(t, config=c, **kw)
typenames(t, c, kw) ==
    /\ pc = "idle"
    /\ pc' = "parse_type_tree"
    /\ tp' = t
    /\ config' = c
    /\ kwargs' = kw
    /\ UNCHANGED <<tree, result>>

\* tree = parse_type_tree(tp=tp, config=config, **kwargs)
ParseTypeTree ==
    /\ pc = "parse_type_tree"
    /\ parse_type_tree(tp, config, kwargs) # ValueError
    /\ tree' = parse_type_tree(tp, config, kwargs)
    /\ pc' = "str"
    /\ UNCHANGED <<tp, config, kwargs, result>>

\* the configuration is rejected: ValueError leaves typenames
ParseTypeTreeRaises ==
    /\ pc = "parse_type_tree"
    /\ parse_type_tree(tp, config, kwargs) = ValueError
    /\ pc' = "raised"
    /\ UNCHANGED <<tp, config, kwargs, tree, result>>

\* return str(tree)
StrTree ==
    /\ pc = "str"
    /\ result' = Str(tree)
    /\ pc' = "done"
    /\ UNCHANGED <<tp, config, kwargs, tree>>

\* the caller has the text or the error; the tree is dropped
Return ==
    /\ pc \in {"done", "raised"}
    /\ pc' = "idle"
    /\ tp' = None
    /\ config' = None
    /\ kwargs' = << >>
    /\ tree' = None
    /\ result' = ""

Steps == ParseTypeTree \/ ParseTypeTreeRaises \/ StrTree \/ Return

\* unions in both spellings under every union and optional syntax
NextUnion ==
    \/ \E t \in UnionTypes, kw \in UnionKwargs : typenames(t, None, kw)
    \/ Steps

SpecUnion == Init /\ [][NextUnion]_vars

\* plain types, collections, callables and nested generics, with and without a
\* configuration object of the caller
Next ==
    \/ \E t \in Types, c \in {None, CallerConfig}, kw \in MainKwargs : typenames(t, c, kw)
    \/ Steps

Spec == Init /\ [][Next]_vars

\* remove_modules lists in every order
NextOrder ==
    \/ \E t \in OrderTypes, kw \in OrderKwargs : typenames(t, None, kw)
    \/ Steps

SpecOrder == Init /\ [][NextOrder]_vars

(***************************************************************************)
(* Properties of the rendering of unions (SpecUnion)                       *)
(***************************************************************************)
SpecialFormSpelling(t) == t.k = "alias" /\ t.type = "typing._UnionGenericAlias"

OperatorSpelling(t) == t.k = "alias" /\ t.type = "types.UnionType"

HasNull(t) == \E i \in 1..Len(t.args) : t.args[i] = NoneType

\* the text of each member of the union being rendered, in argument order
MemberTexts == [i \in 1..Len(tree.arg_nodes) |-> Str(tree.arg_nodes[i])]

\* the same without the null member
NonNullTexts ==
    LET keep == SelectSeq(tree.arg_nodes, LAMBDA a : a.tp # NoneType)
    IN  [i \in 1..Len(keep) |-> Str(keep[i])]

\* what the configured remove_modules leaves of the "typing." in front of Union and Optional:
\* nothing under the default list, all of it under the empty list
TypingPrefix == IF tree.config.remove_modules = << >> THEN "typing." ELSE ""

Bracketed(head, texts) == TypingPrefix \o head \o "[" \o join(", ", texts) \o "]"

\* C1: a typing.Union / typing.Optional union of the null type and one other member T renders
\* Optional[T] under optional_syntax as_given and optional_special_form, the two members in
\* their order joined by " | " under or_operator, and Union[...] over both members under
\* union_special_form (the head keeps "typing." only when remove_modules does not strip it).
C1_OptionalOfOneMember ==
    (pc = "done" /\ SpecialFormSpelling(tp) /\ HasNull(tp) /\ Len(tp.args) = 2) =>
        /\ tree.config.optional_syntax \in {"as_given", "optional_special_form"}
               => result = Bracketed("Optional", NonNullTexts) /\ Len(NonNullTexts) = 1
        /\ tree.config.optional_syntax = "or_operator"
               => result = MemberTexts[1] \o " | " \o MemberTexts[2]
        /\ tree.config.optional_syntax = "union_special_form"
               => result = Bracketed("Union", MemberTexts)
        /\ (tp = Optional(int) /\ tree.config.remove_modules = DEFAULT_REMOVE_MODULES) =>
               result = CASE tree.config.optional_syntax = "or_operator" -> "int | None"
                          [] tree.config.optional_syntax = "union_special_form" -> "Union[int, None]"
                          [] OTHER -> "Optional[int]"

C1_Witness ==
    /\ pc = "done"
    /\ tp = Optional(int)
    /\ tree.config.optional_syntax = "union_special_form"
    /\ result = "Union[int, None]"

\* C2: a union in either spelling of the null type and two or more other members renders,
\* under optional_special_form, Optional[U] with the single argument U, the union of the
\* non-null members in their order: a | b | ... under union_syntax or_operator, else
\* Union[a, b, ...].
C2_OptionalOfSeveralMembers ==
    (/\ pc = "done"
     /\ (SpecialFormSpelling(tp) \/ OperatorSpelling(tp))
     /\ HasNull(tp) /\ Len(tp.args) >= 3
     /\ tree.config.optional_syntax = "optional_special_form") =>
        /\ Len(NonNullTexts) = Len(tp.args) - 1
        /\ result = TypingPrefix \o "Optional["
                      \o (IF tree.config.union_syntax = "or_operator"
                          THEN join(" | ", NonNullTexts)
                          ELSE Bracketed("Union", NonNullTexts))
                      \o "]"
        /\ (tp.args = <<int, NoneType, str>> /\ tree.config.remove_modules = DEFAULT_REMOVE_MODULES)
               => result = IF tree.config.union_syntax = "or_operator"
                           THEN "Optional[int | str]"
                           ELSE "Optional[Union[int, str]]"

C2_Witness ==
    /\ pc = "done"
    /\ tp = OrUnion(<<int, NoneType, str>>)
    /\ tree.config.optional_syntax = "optional_special_form"
    /\ result = "Optional[Union[int, str]]"

\* the same union in the other spelling
Respell(t) == IF SpecialFormSpelling(t) THEN OrUnion(t.args) ELSE Union(t.args)

\* C3: when neither union_syntax nor optional_syntax is as_given, the typing.Union spelling
\* and the | spelling of the same members render to the same text.
C3_UnionCanonical ==
    (/\ pc = "done"
     /\ (SpecialFormSpelling(tp) \/ OperatorSpelling(tp))
     /\ tree.config.union_syntax # "as_given"
     /\ tree.config.optional_syntax # "as_given") =>
        result = Str(parse_type_tree(Respell(tp), config, kwargs))

\* C4: a | union with a null member renders all its members joined by " | ", with no
\* Union[...] or Optional[...] around them, under optional_syntax or_operator and as_given,
\* whatever union_syntax is.
C4_OperatorOptionalJoined ==
    (/\ pc = "done"
     /\ OperatorSpelling(tp) /\ HasNull(tp)
     /\ tree.config.optional_syntax \in {"or_operator", "as_given"}) =>
        result = join(" | ", MemberTexts)

\* the rendering of the current call repeated under another optional_syntax
WithOptionalSyntax(os) == Str(parse_type_tree(tp, config, ("optional_syntax" :> os) @@ kwargs))

UnionForm ==
    /\ tree.config.union_syntax = "or_operator" => result = join(" | ", MemberTexts)
    /\ tree.config.union_syntax = "special_form" => result = Bracketed("Union", MemberTexts)
    /\ tree.config.union_syntax = "as_given" =>
           result = IF SpecialFormSpelling(tp) THEN Bracketed("Union", MemberTexts)
                    ELSE join(" | ", MemberTexts)

\* C5 as stated: a union without a null member takes the form union_syntax asks for, and
\* optional_syntax never changes the output.
C5_PlainUnionIgnoresOptionalSyntax ==
    (/\ pc = "done"
     /\ (SpecialFormSpelling(tp) \/ OperatorSpelling(tp))
     /\ ~HasNull(tp)) =>
        /\ UnionForm
        /\ \A os \in OptionalSyntax : WithOptionalSyntax(os) = result

\* C5 amended: a union without a null member takes the form union_syntax asks for over the
\* texts of its members, whatever optional_syntax is; when every member is a plain class the
\* whole output is the same under every optional_syntax.
C5_PlainUnionForm ==
    (/\ pc = "done"
     /\ (SpecialFormSpelling(tp) \/ OperatorSpelling(tp))
     /\ ~HasNull(tp)) =>
        /\ UnionForm
        /\ (\A i \in 1..Len(tp.args) : tp.args[i].k = "class") =>
               \A os \in OptionalSyntax : WithOptionalSyntax(os) = result
        /\ (tp.args = <<int, str>> /\ tree.config.remove_modules = DEFAULT_REMOVE_MODULES) =>
               result = IF \/ tree.config.union_syntax = "or_operator"
                           \/ tree.config.union_syntax = "as_given" /\ OperatorSpelling(tp)
                        THEN "int | str"
                        ELSE "Union[int, str]"

C5_Witness ==
    /\ pc = "done"
    /\ tp = OrUnion(<<int, str>>)
    /\ tree.config.union_syntax = "special_form"
    /\ tree.config.optional_syntax = "or_operator"
    /\ result = "Union[int, str]"

(***************************************************************************)
(* Properties of collections, module trimming and plain types (Spec)       *)
(***************************************************************************)
\* a subscripted collection of a registry family, in either spelling
IsCollection(t) ==
    t.k = "alias" /\ \E i \in 1..Len(Registry) : Registry[i][1] = t.origin

TypingSpelling(t) == t.alias_name # ""

\* the registry's typing name of the family of t
FamilyAliasName(t) ==
    LET i == CHOOSE j \in 1..Len(Registry) : Registry[j][1] = t.origin
    IN  Registry[i][2]

\* the same collection with the same arguments in the other spelling
OtherSpelling(t) ==
    IF TypingSpelling(t) THEN class_subscript(t.origin, t.args)
    ELSE typing_subscript(typing_(FamilyAliasName(t)), t.args)

\* the rules of the list strip "builtins." and "typing."
StripsStandardModules ==
    tree.config.remove_modules \in
        {DEFAULT_REMOVE_MODULES, REMOVE_ALL_MODULES,
         DEFAULT_REMOVE_MODULES \o << Module("tests.test_typenames") >>}

\* C6: under standard_collection_syntax standard_class the typing spelling and the class
\* spelling of a registry family with the same arguments both render the standard class name
\* as head, and under typing_module both render the registry's typing name as head.
C6_CollectionSpellingsConverge ==
    (/\ pc = "done"
     /\ IsCollection(tp)
     /\ tree.config.standard_collection_syntax \in {"standard_class", "typing_module"}) =>
        LET standard == tree.config.standard_collection_syntax = "standard_class"
            head == IF standard
                    THEN process_module_prefix(tree.config, tp.origin.module \o ".")
                             \o tp.origin.qualname
                    ELSE process_module_prefix(tree.config, "typing.") \o FamilyAliasName(tp)
        IN  /\ result = Str(parse_type_tree(OtherSpelling(tp), config, kwargs))
            /\ result = head \o "[" \o join(", ", MemberTexts) \o "]"
            /\ (tp.origin = builtins("dict") /\ tp.args = <<str, int>> /\ StripsStandardModules)
                   => result = IF standard THEN "dict[str, int]" ELSE "Dict[str, int]"

C6_Witness ==
    /\ pc = "done"
    /\ tp = class_subscript(collections_abc("Set"), <<int>>)
    /\ tree.config.standard_collection_syntax = "typing_module"
    /\ result = "AbstractSet[int]"

\* a "." that ends a name: a dotted prefix in the text (the dots of "..." do not count)
HasDottedPrefix(text) ==
    \E i \in 2..Len(text) :
        Char(text, i) = "." /\ Char(text, i - 1) \in WordChars \cup {">"}

\* C7: under remove_modules = REMOVE_ALL_MODULES the text has no dotted module prefix at any
\* position, also inside the parameter list of a callable.
C7_RemoveAllLeavesNoPrefix ==
    (pc = "done" /\ tree.config.remove_modules = REMOVE_ALL_MODULES) => ~HasDottedPrefix(result)

\* no rule of the configured list matches s
NoRuleMatches(s) ==
    \A i \in 1..Len(tree.config.remove_modules) :
        match_end(remove_modules_patterns(tree.config)[i], s) = -1

IsPlain(t) == t.k = "class" \/ t = typing_Any

DefaultCall == config = None /\ kwargs = << >>

\* the modules the default list strips
DefaultModules ==
    {"__main__", "builtins", "collections", "collections.abc", "contextlib", "re", "types",
     "typing"}

StartsWithDefaultModule(s) == \E m \in DefaultModules : StartsWith(s, m \o ".")

RECURSIVE Orderings(_)
Orderings(S) ==
    IF S = {} THEN { << >> }
    ELSE UNION { { <<x>> \o q : q \in Orderings(S \ {x}) } : x \in S }

\* the orderings of a list of different entries
Permutations_(l) == Orderings({l[i] : i \in 1..Len(l)})

\* the rendering of the current call repeated with remove_modules in the order q
WithRemoveModules(q) == Str(parse_type_tree(tp, config, ("remove_modules" :> q) @@ kwargs))

\* the strings the rules are applied to while n is rendered: the module prefix and the name
\* of every type, the module prefix of every head
RECURSIVE TrimmedStrings(_)
TrimmedStrings(n) ==
    IF n.node = "TypeNode" THEN {module_prefix_of(n.tp), type_name_of(n.tp)}
    ELSE IF n.node = "LiteralNode" THEN {}
    ELSE IF n.node = "ParamsListNode"
    THEN UNION {TrimmedStrings(n.arg_nodes[i]) : i \in 1..Len(n.arg_nodes)}
    ELSE LET h == GenericNode_head(n)
         IN  (IF h.ret THEN {} ELSE {h.origin_module_prefix})
                 \cup UNION {TrimmedStrings(h.arg_nodes[i]) : i \in 1..Len(h.arg_nodes)}

\* at most one rule of the list matches s, and none matches what that rule leaves of s
AtMostOneRuleApplies(c, s) ==
    LET ps == remove_modules_patterns(c)
        ms == {i \in 1..Len(ps) : match_end(ps[i], s) # -1}
    IN  \/ ms = {}
        \/ \E i \in ms : /\ ms = {i}
                         /\ \A j \in 1..Len(ps) : match_end(ps[j], sub(ps[i], s)) = -1

\* C9 as stated: the order of the entries of remove_modules does not affect the text.
C9_OrderIrrelevant ==
    pc = "done" =>
        \A q \in Permutations_(tree.config.remove_modules) : WithRemoveModules(q) = result

\* C9 amended: the order of the entries does not affect the text when each string the rules
\* are applied to is matched by at most one rule and, once that rule has trimmed it, by none.
C9_OrderIrrelevantWhenOneRuleApplies ==
    (pc = "done" /\ \A s \in TrimmedStrings(tree) : AtMostOneRuleApplies(tree.config, s)) =>
        \A q \in Permutations_(tree.config.remove_modules) : WithRemoveModules(q) = result

C9_Witness ==
    /\ pc = "done"
    /\ tp = typing_List(MyClass)
    /\ tree.config.remove_modules = << Module("typing"), Module("tests.test_typenames") >>
    /\ \A s \in TrimmedStrings(tree) : AtMostOneRuleApplies(tree.config, s)
    /\ result = "List[MyClass]"

(***************************************************************************)
(* Construction of the configuration (SpecConfig): the caller builds a     *)
(* TypenamesConfig directly, then calls typenames with it or without it,   *)
(* with keyword overrides inside and outside the enumerations              *)
(***************************************************************************)
SyntaxFields == {"union_syntax", "optional_syntax", "standard_collection_syntax"}

\* the enumeration of each syntax field
Enumeration(field) ==
    CASE field = "union_syntax" -> UnionSyntax
      [] field = "optional_syntax" -> OptionalSyntax
      [] field = "standard_collection_syntax" -> StandardCollectionSyntax

\* overrides: values of the enumerations, a value of another field's enumeration, a member
\* name in place of its value, and a word of no enumeration
ConfigKwargs ==
    Kwargs({"special_form", "OR_OPERATOR"},
           {"or_operator", "special_form"},
           {"typing_module", "bogus"},
           {})

ConfigTypes ==
    {int, Optional(int), typing_List(Optional(int)),
     typing_subscript(typing_("Callable"), <<ParamsList(<<int>>), str>>)}

\* config = TypenamesConfig(**kw) in the caller: the object is built
TypenamesConfigBuilt(kw) ==
    /\ pc = "idle"
    /\ TypenamesConfig(kw) # ValueError
    /\ config' = TypenamesConfig(kw)
    /\ UNCHANGED <<pc, tp, kwargs, tree, result>>

\* TypenamesConfig(**kw) in the caller: __post_init__ raises ValueError
TypenamesConfigRaises(kw) ==
    /\ pc = "idle"
    /\ TypenamesConfig(kw) = ValueError
    /\ pc' = "raised"
    /\ kwargs' = kw
    /\ UNCHANGED <<tp, config, tree, result>>

NextConfig ==
    \/ \E kw \in ConfigKwargs : TypenamesConfigBuilt(kw)
    \/ \E kw \in ConfigKwargs : TypenamesConfigRaises(kw)
    \/ \E t \in ConfigTypes, kw \in ConfigKwargs : typenames(t, config, kw)
    \/ Steps

SpecConfig == Init /\ [][NextConfig]_vars

\* the three syntax fields of c hold values of their enumerations
Enumerated(c) == \A f \in SyntaxFields : c[f] \in Enumeration(f)

\* every node of the tree holds a configuration with enumerated syntax fields
RECURSIVE AllEnumerated(_)
AllEnumerated(n) ==
    /\ Enumerated(n.config)
    /\ "arg_nodes" \in DOMAIN n => \A i \in 1..Len(n.arg_nodes) : AllEnumerated(n.arg_nodes[i])

\* an override outside the enumeration of its field
BadOverride(kw) == \E f \in SyntaxFields \cap DOMAIN kw : kw[f] \notin Enumeration(f)

Contains(s, ch) == \E i \in 1..Len(s) : Char(s, i) = ch

\* the body of repr(): a backslash and the quote character q are escaped
RECURSIVE escape(_, _)
escape(s, q) ==
    IF Len(s) = 0 THEN ""
    ELSE (IF Char(s, 1) = "\\" \/ Char(s, 1) = q THEN "\\" \o Char(s, 1) ELSE Char(s, 1))
             \o escape(DropFirst(s, 1), q)

\* repr() of a text string of printable characters: single quotes, or double quotes when
\* the text holds a single quote and no double quote
str_repr(text) ==
    IF Contains(text, "'") /\ ~Contains(text, "\"")
    THEN "\"" \o escape(text, "\"") \o "\""
    ELSE "'" \o escape(text, "'") \o "'"

Digit(d) == SubSeq("0123456789", d + 1, d + 1)

\* repr() of an integer
RECURSIVE int_repr(_)
int_repr(n) ==
    IF n < 0 THEN "-" \o int_repr(0 - n)
    ELSE IF n < 10 THEN Digit(n)
    ELSE int_repr(n \div 10) \o Digit(n % 10)

StrValue(text) == [k |-> "value", type |-> "str", repr |-> str_repr(text)]

BytesValue(text) == [k |-> "value", type |-> "bytes", repr |-> "b" \o str_repr(text)]

IntValue(n) == [k |-> "value", type |-> "int", repr |-> int_repr(n)]

BoolValue(b) == [k |-> "value", type |-> "bool", repr |-> IF b THEN "True" ELSE "False"]

\* cls.member of an Enum class
EnumMember(cls, name, value_repr) ==
    [k |-> "value", type |-> "Enum", class_name |-> cls.name, name |-> name,
     repr |-> "<" \o cls.name \o "." \o name \o ": " \o value_repr \o ">"]

MyEnum == Class("tests.test_typenames", "MyEnum", "MyEnum")

MEMBER1 == EnumMember(MyEnum, "MEMBER1", str_repr("member1"))

MEMBER2 == EnumMember(MyEnum, "MEMBER2", str_repr("member2"))

typing_Literal == SpecialForm("Literal")

typing_Final == SpecialForm("Final")

\* typing.Annotated is a class of the typing module
typing_Annotated == Class("typing", "Annotated", "Annotated")

\* typing.Literal[args]
Literal(args) == GenericAlias("typing._LiteralGenericAlias", typing_Literal, args, "Literal")

\* typing.Final[x]
Final(x) == GenericAlias("typing._GenericAlias", typing_Final, <<x>>, "Final")

\* typing.Annotated[x, metadata...]: get_origin gives typing.Annotated, get_args the type
\* followed by the metadata
Annotated(x, metadata) ==
    GenericAlias("typing._AnnotatedAlias", typing_Annotated, <<x>> \o metadata, "Annotated")

builtins_list(x) == class_subscript(builtins("list"), <<x>>)

builtins_dict(x, y) == class_subscript(builtins("dict"), <<x, y>>)

typing_Callable(params, ret) == typing_subscript(typing_("Callable"), <<ParamsList(params), ret>>)

(***************************************************************************)
(* Inputs of every shape (SpecTree): literal values, parameter lists,      *)
(* Literal, Annotated and Final, generics nested in generics, unions of    *)
(* collections and collections of unions                                   *)
(***************************************************************************)
MaxLiteralArgs == 2

LiteralPool ==
    {StrValue("s"), StrValue("it's"), IntValue(0), MEMBER1, None}

\* values given where a type is expected
ValueInputs ==
    LiteralPool \cup {IntValue(0 - 12), BoolValue(TRUE), BytesValue("x"), StrValue("typing.x"),
                      MEMBER2}

ListInputs ==
    {ParamsList(<< >>), ParamsList(<<int, str>>), ParamsList(<<MyClass>>),
     ParamsList(<<typing_List(Optional(int))>>)}

\* typing.Literal drops repeated parameters
LiteralTypes ==
    UNION { {Literal(a) : a \in {t \in Tuples(LiteralPool, n) : Distinct(t)}}
          : n \in 1..MaxLiteralArgs }
        \cup {Literal(<<StrValue("s"), IntValue(0), MEMBER1>>),
              Literal(<<StrValue("typing.x"), BoolValue(TRUE), BytesValue("x"), MEMBER2>>)}

some_metadata == StrValue("some metadata")

AnnotatedTypes ==
    {Annotated(str, <<some_metadata>>),
     Annotated(MyClass, <<some_metadata>>),
     Annotated(typing_List(int), <<some_metadata, IntValue(3)>>),
     Optional(Annotated(str, <<some_metadata>>)),
     typing_List(Annotated(str, <<some_metadata>>))}

DeepTypes ==
    {Final(int),
     GenericAlias("typing._GenericAlias", MyGeneric, <<int>>, ""),
     builtins_list(builtins_dict(str, int)),
     builtins_list(class_subscript(builtins("tuple"), <<int, str>>)),
     builtins_list(typing_subscript(typing_("Tuple"), <<int, str>>)),
     builtins_list(class_subscript(collections("defaultdict"), <<str, builtins_list(int)>>)),
     typing_subscript(typing_("Dict"), <<str, typing_List(Optional(MyClass))>>),
     typing_Callable(<<typing_List(int)>>, str),
     typing_Callable(<<MyClass>>, Optional(MyClass)),
     typing_List(typing_Callable(<<Optional(int)>>, str)),
     class_subscript(collections_abc("Callable"), <<Ellipsis, builtins_list(MyClass)>>)}

\* unions of collections and collections of unions, each part in each spelling it can take
\* (a | b is a types.UnionType only when neither side is a typing alias)
MixedTypes ==
    {Union(<<typing_List(int), builtins_dict(str, int)>>),
     Union(<<builtins_list(int), builtins_dict(str, int)>>),
     OrUnion(<<builtins_list(int), builtins_dict(str, int)>>),
     Optional(typing_List(int)),
     OrUnion(<<builtins_list(int), NoneType>>),
     Union(<<int, NoneType, str>>),
     OrUnion(<<int, str, NoneType>>),
     typing_List(Union(<<int, str>>)),
     typing_List(OrUnion(<<int, str>>)),
     builtins_list(Union(<<int, str>>)),
     builtins_list(OrUnion(<<int, str>>))}

TreeLeaves ==
    {int, NoneType, typing_Any, MyClass, MyEnum, InnerClass, Ellipsis, ForwardRef("enum.Enum")}

TreeTypes ==
    ValueInputs \cup ListInputs \cup LiteralTypes \cup AnnotatedTypes \cup DeepTypes
        \cup MixedTypes \cup TreeLeaves

TreeKwargs ==
    Kwargs({"or_operator", "bogus"}, {"or_operator", "optional_special_form"},
           {"typing_module"}, { << >>, REMOVE_ALL_MODULES })

NextTree ==
    \/ \E t \in TreeTypes, c \in {None, CallerConfig}, kw \in TreeKwargs : typenames(t, c, kw)
    \/ Steps

SpecTree == Init /\ [][NextTree]_vars

\* C12: with the default configuration Annotated[T, metadata...] renders as T alone renders,
\* without the wrapper and the metadata, also inside another generic: Annotated[str, m]
\* renders "str" and Optional[Annotated[str, m]] renders "Optional[str]".
C12_AnnotatedRendersBareType ==
    (pc = "done" /\ DefaultCall) =>
        /\ (tp.k = "alias" /\ tp.origin = typing_Annotated) =>
               result = Str(parse_type_tree(tp.args[1], None, << >>))
        /\ tp = Annotated(str, <<some_metadata>>) => result = "str"
        /\ tp = Optional(Annotated(str, <<some_metadata>>)) => result = "Optional[str]"

\* a type expression and every expression inside it: arguments and parameter-list items
RECURSIVE SubExpressions(_)
SubExpressions(t) ==
    {t} \cup (IF t.k = "alias"
              THEN UNION {SubExpressions(t.args[i]) : i \in 1..Len(t.args)}
              ELSE IF t.k = "list"
              THEN UNION {SubExpressions(t.items[i]) : i \in 1..Len(t.items)}
              ELSE {})

\* the classification predicates that are true of t
Classification(t) ==
    (IF is_union_special_form(t) THEN {"is_union_special_form"} ELSE {})
        \cup (IF is_union_or_operator(t) THEN {"is_union_or_operator"} ELSE {})
        \cup (IF is_standard_collection_type_alias(t)
              THEN {"is_standard_collection_type_alias"} ELSE {})
        \cup (IF is_typing_module_collection_alias(t)
              THEN {"is_typing_module_collection_alias"} ELSE {})

\* C13: at most one of the four classification predicates is true of a type expression, at
\* any position of the input; a union (of collections or of anything else) is classified by
\* exactly one union predicate, the one of its spelling, and a collection (of unions or of
\* anything else) by exactly one collection predicate, the one of its spelling
\* (typing.Callable[...] has an alias class of its own and counts with the class spelling);
\* an expression that is neither is classified by none.
C13_AtMostOneClassification ==
    pc # "idle" =>
        \A x \in SubExpressions(tp) :
            /\ Cardinality(Classification(x)) <= 1
            /\ get_origin(x) = typing_Union => Classification(x) = {"is_union_special_form"}
            /\ get_origin(x) = types_UnionType => Classification(x) = {"is_union_or_operator"}
            /\ get_origin(x) \in STANDARD_COLLECTION_CLASSES =>
                   Classification(x) =
                       IF x.alias_name # "" /\ x.alias_name # "Callable"
                       THEN {"is_typing_module_collection_alias"}
                       ELSE {"is_standard_collection_type_alias"}
            /\ get_origin(x) \notin {typing_Union, types_UnionType} \cup STANDARD_COLLECTION_CLASSES
                   => Classification(x) = {}

C13_Witness ==
    /\ pc = "done"
    /\ tp = Union(<<typing_List(int), builtins_dict(str, int)>>)
    /\ Classification(tp) = {"is_union_special_form"}
    /\ Classification(tp.args[1]) = {"is_typing_module_collection_alias"}
    /\ Classification(tp.args[2]) = {"is_standard_collection_type_alias"}

\* the shapes of an input, from what the input is
HasOrigin(t) == t.k = "alias"

IsList(t) == t.k = "list"

IsLiteralKind(t) ==
    t = None \/ (t.k = "value" /\ t.type \in {"int", "bytes", "str", "bool", "Enum"})

\* the variant the precedence gives to t
ExpectedVariant(t) ==
    IF HasOrigin(t) THEN "GenericNode"
    ELSE IF IsList(t) THEN "ParamsListNode"
    ELSE IF IsLiteralKind(t) THEN "LiteralNode"
    ELSE "TypeNode"

\* n and every node under it has the variant of its input, a GenericNode holds its origin
\* and one child per argument in argument order, a ParamsListNode one child per item in
\* list order, and the other variants have no children
RECURSIVE ClassifiedByPrecedence(_)
ClassifiedByPrecedence(n) ==
    /\ n.node = ExpectedVariant(n.tp)
    /\ n.node \in {"GenericNode", "ParamsListNode", "LiteralNode", "TypeNode"}
    /\ n.node = "GenericNode" =>
           /\ n.origin = n.tp.origin
           /\ Len(n.arg_nodes) = Len(n.tp.args)
           /\ \A i \in 1..Len(n.arg_nodes) :
                  n.arg_nodes[i].tp = n.tp.args[i] /\ ClassifiedByPrecedence(n.arg_nodes[i])
    /\ n.node = "ParamsListNode" =>
           /\ Len(n.arg_nodes) = Len(n.tp.items)
           /\ \A i \in 1..Len(n.arg_nodes) :
                  n.arg_nodes[i].tp = n.tp.items[i] /\ ClassifiedByPrecedence(n.arg_nodes[i])
    /\ n.node \in {"LiteralNode", "TypeNode"} => "arg_nodes" \notin DOMAIN n

\* C14: parse_type_tree gives every input exactly one node variant by a fixed precedence
\* (origin: GenericNode with the parsed arguments in order; else list: ParamsListNode; else
\* integer, byte string, text string, boolean, enum member or null value: LiteralNode; else
\* TypeNode), at every level of the tree, and no input shape makes parsing fail: a call
\* fails only for an override outside an enumeration.
C14_ParseClassifiesByPrecedence ==
    /\ pc \in {"str", "done"} => tree.tp = tp /\ ClassifiedByPrecedence(tree)
    /\ pc = "raised" => BadOverride(kwargs)
    /\ (pc = "parse_type_tree" /\ ~BadOverride(kwargs)) =>
           parse_type_tree(tp, config, kwargs) # ValueError

C14_Witness ==
    /\ pc = "done"
    /\ tp = typing_Callable(<<MyClass>>, Optional(MyClass))
    /\ tree.node = "GenericNode"
    /\ tree.arg_nodes[1].node = "ParamsListNode"
    /\ tree.arg_nodes[1].arg_nodes[1].node = "TypeNode"
    /\ tree.arg_nodes[2].node = "GenericNode"

\* the literals being rendered: the arguments of a Literal, or a value given as the input
LiteralArgs == IF tp.k = "alias" THEN tp.args ELSE <<tp>>

IsLiteralInput ==
    (tp.k = "alias" /\ tp.origin = typing_Literal) \/ (tp.k = "value" \/ tp = None)

\* text in single quotes
SingleQuoted(text) ==
    Len(text) >= 2 /\ Char(text, 1) = "'" /\ Char(text, Len(text)) = "'"

\* the text of one literal by its kind
KindText(v) ==
    IF v = None THEN "None"
    ELSE IF v.type = "Enum" THEN v.class_name \o "." \o v.name
    ELSE v.repr

\* the text of the literals of the input, each by its own kind, in the form of the input
LiteralsByKind ==
    LET texts == [i \in 1..Len(LiteralArgs) |-> KindText(LiteralArgs[i])]
    IN  /\ result = IF tp.k = "alias"
                    THEN process_module_prefix(tree.config, "typing.") \o "Literal["
                             \o join(", ", texts) \o "]"
                    ELSE texts[1]
        /\ (tp = Literal(<<StrValue("s"), IntValue(0), MEMBER1>>)) =>
               /\ tree.config.remove_modules \in {DEFAULT_REMOVE_MODULES, REMOVE_ALL_MODULES}
                      => result = "Literal['s', 0, MyEnum.MEMBER1]"
               /\ tree.config.remove_modules = << >>
                      => result = "typing.Literal['s', 0, MyEnum.MEMBER1]"
        /\ tp = MEMBER1 => result = "MyEnum.MEMBER1"
        /\ tp = BoolValue(TRUE) => result = "True"
        /\ tp = IntValue(0 - 12) => result = "-12"

\* C15 as stated: each literal renders by its own kind whatever its siblings and the
\* configuration are: an enum member as EnumTypeName.MemberName without module prefix, every
\* other literal as its literal text, a text string in single quotes.
C15_LiteralsSingleQuoted ==
    (pc = "done" /\ IsLiteralInput) =>
        /\ LiteralsByKind
        /\ \A i \in 1..Len(LiteralArgs) :
               (LiteralArgs[i] # None /\ LiteralArgs[i].type = "str") =>
                   SingleQuoted(KindText(LiteralArgs[i]))

\* C15 amended: each literal renders by its own kind whatever its siblings and the
\* configuration are: an enum member as EnumTypeName.MemberName without module prefix, every
\* other literal as its repr(), so a text string stands in single quotes unless it holds a
\* single quote and no double quote, when it stands in double quotes.
C15_LiteralsByKind ==
    (pc = "done" /\ IsLiteralInput) =>
        /\ LiteralsByKind
        /\ tp = StrValue("s") => result = "'s'"
        /\ tp = StrValue("it's") => result = "\"it's\""
        /\ tp = Literal(<<StrValue("it's"), MEMBER1>>) =>
               result = process_module_prefix(tree.config, "typing.")
                            \o "Literal[\"it's\", MyEnum.MEMBER1]"

C15_Witness ==
    /\ pc = "done"
    /\ tp = Literal(<<StrValue("it's"), MEMBER1>>)
    /\ tree.config.remove_modules = REMOVE_ALL_MODULES
    /\ result = "Literal[\"it's\", MyEnum.MEMBER1]"

\* n and every node under it
RECURSIVE Nodes(_)
Nodes(n) ==
    {n} \cup (IF "arg_nodes" \in DOMAIN n
              THEN UNION {Nodes(n.arg_nodes[i]) : i \in 1..Len(n.arg_nodes)}
              ELSE {})

\* the generic nodes of the tree that are not rendered in " | " form
BracketedGenerics == {g \in Nodes(tree) : g.node = "GenericNode" /\ ~GenericNode_head(g).ret}

\* the text of each child of g, rendered alone: parsed from the argument under the
\* configuration of g and rendered, with no parent and no sibling
ChildTexts(g) ==
    [i \in 1..Len(g.tp.args) |-> Str(parse_type_tree(g.tp.args[i], g.config, << >>))]

\* a dotted name: what stands in front of the bracket
IsDottedName(text) ==
    Len(text) > 0 /\ \A i \in 1..Len(text) : Char(text, i) \in WordChars \cup {"."}

\* text is a head followed by the texts in brackets, joined by ", "
HeadAndBracket(text, texts) ==
    LET bracket == "[" \o join(", ", texts) \o "]"
    IN  /\ Len(text) > Len(bracket)
        /\ SubSeq(text, Len(text) - Len(bracket) + 1, Len(text)) = bracket
        /\ IsDottedName(SubSeq(text, 1, Len(text) - Len(bracket)))

\* g is rendered with the head Optional
OptionalHead(g) == GenericNode_head(g).origin_name = "Optional"

\* C16 as stated: every generic not rendered in " | " form, at any depth, renders as its
\* head followed by the renderings of all its children in argument order, joined by ", ",
\* in brackets, each child rendered as it renders alone.
C16_GenericRendersAllChildren ==
    pc = "done" =>
        \A g \in BracketedGenerics : HeadAndBracket(Str(g), ChildTexts(g))

\* C16 amended: the same for every generic whose head is not Optional; a union rendered
\* with the head Optional renders in the brackets its non-null children only, in argument
\* order: the one that is left, or the union of the several that are left as a single
\* argument (joined by " | " under union_syntax or_operator, else in Union[...]).
C16_GenericRendersHeadAndChildren ==
    pc = "done" =>
        /\ \A g \in BracketedGenerics :
               LET texts == ChildTexts(g)
                   kept == {i \in 1..Len(texts) : g.tp.args[i] # NoneType}
                   rest == [j \in 1..Cardinality(kept) |->
                               texts[CHOOSE i \in kept : Cardinality({m \in kept : m < i}) = j - 1]]
                   typing == process_module_prefix(g.config, "typing.")
               IN  IF ~OptionalHead(g) THEN HeadAndBracket(Str(g), texts)
                   ELSE Str(g) = typing \o "Optional["
                                     \o (IF Len(rest) = 1 THEN rest[1]
                                         ELSE IF g.config.union_syntax = "or_operator"
                                         THEN join(" | ", rest)
                                         ELSE typing \o "Union[" \o join(", ", rest) \o "]")
                                     \o "]"
        /\ (DefaultCall /\ tp = builtins_list(builtins_dict(str, int)))
               => result = "list[dict[str, int]]"

C16_Witness ==
    /\ pc = "done"
    /\ DefaultCall
    /\ tp = builtins_list(class_subscript(collections("defaultdict"), <<str, builtins_list(int)>>))
    /\ Cardinality(BracketedGenerics) = 3
    /\ result = "list[defaultdict[str, list[int]]]"

(***************************************************************************)
(* Literal module names in remove_modules (SpecModules): classes whose     *)
(* module paths begin like a listed module, are one, or are neither        *)
(***************************************************************************)
Container(module) == Class(module, "Container", "Container")

ModuleTypes ==
    {typing_Any, int, MyClass, InnerClass,
     collections("defaultdict"), collections_abc("Container"),
     Container("someothermodule"), Container("typing_other"), Container("typing.other"),
     Container("tests"), Container("tests_other"), Container("testsXtest_typenames"),
     Container("tests.test_typenames_other"), Container("collections_abc"),
     Container("OuterClass")}

ModuleNames == {"typing", "tests", "tests.test_typenames", "collections", "OuterClass"}

\* the default list, or a list of one literal module name
ModuleKwargs ==
    Kwargs({"bogus"}, {}, {}, { <<Module(m)>> : m \in ModuleNames })

NextModules ==
    \/ \E t \in ModuleTypes, kw \in ModuleKwargs : typenames(t, None, kw)
    \/ Steps

SpecModules == Init /\ [][NextModules]_vars

\* what the literal module name m leaves of s: s without its leading "m." when s begins
\* with m as complete dotted component(s), else s
StripLiteral(m, s) == IF StartsWith(s, m \o ".") THEN DropFirst(s, Len(m) + 1) ELSE s

\* C17: a literal module name M of remove_modules strips a leading "M." from the strings it
\* is applied to (the module prefix and the name of a type) only when M is the complete
\* leading dotted component(s) of the string: a string that merely begins with the text of
\* M, or whose module is not in the list, is left unchanged; the default list reduces
\* typing.Any, collections.defaultdict and collections.abc.Container to Any, defaultdict
\* and Container and leaves typing_other.Container and someothermodule.Container unchanged.
C17_LiteralModuleStripsWholeComponents ==
    (pc = "done" /\ tp.k \in {"class", "special_form"}) =>
        LET prefix == tp.module \o "."
            name == type_name_of(tp)
            rules == tree.config.remove_modules
        IN  /\ (Len(rules) = 1 /\ rules[1].type = "str") =>
                   result = StripLiteral(rules[1].value, prefix)
                                \o StripLiteral(rules[1].value, name)
            /\ (rules = DEFAULT_REMOVE_MODULES /\ ~StartsWithDefaultModule(prefix)) =>
                   result = prefix \o name
            /\ rules = DEFAULT_REMOVE_MODULES =>
                   /\ tp = typing_Any => result = "Any"
                   /\ tp = collections("defaultdict") => result = "defaultdict"
                   /\ tp = collections_abc("Container") => result = "Container"
                   /\ tp = Container("someothermodule") => result = "someothermodule.Container"
                   /\ tp = Container("typing_other") => result = "typing_other.Container"
                   /\ tp = Container("collections_abc") => result = "collections_abc.Container"

C17_Witness ==
    /\ pc = "done"
    /\ tp = Container("testsXtest_typenames")
    /\ tree.config.remove_modules = <<Module("tests.test_typenames")>>
    /\ result = "testsXtest_typenames.Container"

(***************************************************************************)
(* Several callers (SpecCalls).  Each caller runs calls of its own:        *)
(* pc, tp, kwargs, tree and result hold one entry per caller.  The callers *)
(* share the objects a call can reach: the configuration object they all   *)
(* pass as config (or None) and the module-scope tables; config holds      *)
(* these shared objects.  The steps of different callers interleave.       *)
(***************************************************************************)
MaxCallers == 2

Callers == 1..MaxCallers

SharedObjects(c) ==
    [config |-> c,
     DEFAULT_REMOVE_MODULES |-> DEFAULT_REMOVE_MODULES,
     REMOVE_ALL_MODULES |-> REMOVE_ALL_MODULES,
     STANDARD_COLLECTION_TO_TYPING_ALIAS_MAPPING |-> STANDARD_COLLECTION_TO_TYPING_ALIAS_MAPPING]

CallTypes == {OrUnion(<<int, NoneType>>), typing_List(Optional(MyClass))}

CallKwargs == Kwargs({}, {"or_operator", "optional_special_form", "bogus"}, {}, {})

\* the shared objects with the overrides written into the caller's object itself
shared_after_parse_in_place(shared, kw) ==
    IF shared.config = None THEN shared
    ELSE [shared EXCEPT !.config = replace(shared.config, kw)]

\* the shared objects after parse_type_tree has built its configuration: the local name
\* config is bound to a new object (TypenamesConfig(**kwargs), or dataclasses.replace, which
\* builds a copy); nothing is assigned to the caller's object or to a module-scope table
shared_after_parse(shared, kw) == shared

InitCalls ==
    /\ pc = [c \in Callers |-> "idle"]
    /\ tp = [c \in Callers |-> None]
    /\ kwargs = [c \in Callers |-> << >>]
    /\ tree = [c \in Callers |-> None]
    /\ result = [c \in Callers |-> ""]
    /\ config \in {SharedObjects(None), SharedObjects(CallerConfig)}

\* caller c enters typenames(t, config=config, **kw)
Call(c, t, kw) ==
    /\ pc[c] = "idle"
    /\ pc' = [pc EXCEPT ![c] = "parse_type_tree"]
    /\ tp' = [tp EXCEPT ![c] = t]
    /\ kwargs' = [kwargs EXCEPT ![c] = kw]
    /\ UNCHANGED <<config, tree, result>>

CallParseTypeTree(c) ==
    /\ pc[c] = "parse_type_tree"
    /\ parse_type_tree(tp[c], config.config, kwargs[c]) # ValueError
    /\ tree' = [tree EXCEPT ![c] = parse_type_tree(tp[c], config.config, kwargs[c])]
    /\ config' = shared_after_parse(config, kwargs[c])
    /\ pc' = [pc EXCEPT ![c] = "str"]
    /\ UNCHANGED <<tp, kwargs, result>>

CallParseTypeTreeRaises(c) ==
    /\ pc[c] = "parse_type_tree"
    /\ parse_type_tree(tp[c], config.config, kwargs[c]) = ValueError
    /\ pc' = [pc EXCEPT ![c] = "raised"]
    /\ UNCHANGED <<tp, config, kwargs, tree, result>>

CallStrTree(c) ==
    /\ pc[c] = "str"
    /\ result' = [result EXCEPT ![c] = Str(tree[c])]
    /\ pc' = [pc EXCEPT ![c] = "done"]
    /\ UNCHANGED <<tp, config, kwargs, tree>>

CallReturn(c) ==
    /\ pc[c] \in {"done", "raised"}
    /\ pc' = [pc EXCEPT ![c] = "idle"]
    /\ tp' = [tp EXCEPT ![c] = None]
    /\ kwargs' = [kwargs EXCEPT ![c] = << >>]
    /\ tree' = [tree EXCEPT ![c] = None]
    /\ result' = [result EXCEPT ![c] = ""]
    /\ UNCHANGED config

NextCalls ==
    \E c \in Callers :
        \/ \E t \in CallTypes, kw \in CallKwargs : Call(c, t, kw)
        \/ CallParseTypeTree(c)
        \/ CallParseTypeTreeRaises(c)
        \/ CallStrTree(c)
        \/ CallReturn(c)

SpecCalls == InitCalls /\ [][NextCalls]_vars

\* the field values of a configuration, as keyword overrides
FieldsOf(c) ==
    [f \in {"union_syntax", "optional_syntax", "standard_collection_syntax", "remove_modules"}
        |-> c[f]]

\* C18: two calls of typenames on the same type expression with the same configuration
\* object and the same overrides return the same text, whatever calls were made or are
\* under way in between; and a call returns the text that a call with no configuration
\* object and the same field values given as overrides returns.
C18_SameInputsSameText ==
    /\ \A a, b \in Callers :
           (pc[a] = "done" /\ pc[b] = "done" /\ tp[a] = tp[b] /\ kwargs[a] = kwargs[b])
               => result[a] = result[b]
    /\ \A a \in Callers :
           pc[a] = "done" =>
               result[a] = Str(parse_type_tree(tp[a], None, FieldsOf(tree[a].config)))

C18_Witness ==
    /\ pc[1] = "done" /\ pc[2] = "done"
    /\ config.config = CallerConfig
    /\ tp[1] = typing_List(Optional(MyClass)) /\ tp[2] = tp[1]
    /\ kwargs[1] = ("optional_syntax" :> "or_operator") /\ kwargs[2] = kwargs[1]
    /\ result[1] = "typing.List[MyClass | builtins.None]"
    /\ result[2] = result[1]

\* the text the call of caller c returns when it runs alone on the shared objects as they
\* were when the callers started
AloneText(c, shared) == Str(parse_type_tree(tp[c], shared.config, kwargs[c]))

\* C19: no step of a call writes a shared object: the caller's configuration object and the
\* module-scope tables (DEFAULT_REMOVE_MODULES, REMOVE_ALL_MODULES, the collection-alias
\* registry) keep their contents over every step, also when overrides are given (they go
\* to the configuration of the tree, a copy); and under every interleaving each call
\* returns the text it returns when run alone.
C19_CallsWriteNoSharedState ==
    /\ [][config' = config]_vars
    /\ [](/\ config \in {SharedObjects(None), SharedObjects(CallerConfig)}
          /\ \A c \in Callers :
                 pc[c] = "done" =>
                     /\ result[c] = AloneText(c, SharedObjects(config.config))
                     /\ \A f \in DOMAIN kwargs[c] : tree[c].config[f] = kwargs[c][f])

C19_Witness ==
    /\ pc[1] = "done" /\ pc[2] = "str"
    /\ tp[1] = OrUnion(<<int, NoneType>>) /\ tp[2] = tp[1]
    /\ kwargs[1] = ("optional_syntax" :> "optional_special_form")
    /\ kwargs[2] = ("optional_syntax" :> "or_operator")
    /\ config = SharedObjects(CallerConfig)
    /\ tree[1].config.optional_syntax = "optional_special_form"
    /\ tree[2].config.optional_syntax = "or_operator"
    /\ result[1] = "typing.Optional[builtins.int]"

\* the configuration a call works under: the caller's with the overrides applied
EffectiveConfig == IF config = None THEN TypenamesConfig(kwargs) ELSE replace(config, kwargs)

\* C20: the root of the tree holds the caller's configuration with the overrides applied;
\* every child of a GenericNode holds the configuration of its parent, equal field by
\* field; every child of a ParamsListNode holds a default configuration, whatever the
\* caller's configuration and overrides are.
C20_ConfigPropagation ==
    pc \in {"str", "done"} =>
        /\ tree.config = EffectiveConfig
        /\ \A n \in Nodes(tree) :
               /\ n.node = "GenericNode" =>
                      \A i \in 1..Len(n.arg_nodes) :
                          \A f \in DOMAIN n.config : n.arg_nodes[i].config[f] = n.config[f]
               /\ n.node = "ParamsListNode" =>
                      \A i \in 1..Len(n.arg_nodes) :
                          /\ n.arg_nodes[i].config = TypenamesConfig(<< >>)
                          /\ n.arg_nodes[i].config.remove_modules = DEFAULT_REMOVE_MODULES
                          /\ n.arg_nodes[i].config.optional_syntax = "as_given"

C20_Witness ==
    /\ pc = "done"
    /\ tp = typing_Callable(<<MyClass>>, Optional(MyClass))
    /\ config = CallerConfig
    /\ kwargs = ("remove_modules" :> REMOVE_ALL_MODULES)
    /\ tree.config.remove_modules = REMOVE_ALL_MODULES
    /\ tree.arg_nodes[1].config = tree.config
    /\ tree.arg_nodes[1].arg_nodes[1].config.remove_modules = DEFAULT_REMOVE_MODULES
    /\ tree.arg_nodes[2].arg_nodes[1].config = tree.config
    /\ result = "Callable[[tests.test_typenames.MyClass], Optional[MyClass]]"

(***************************************************************************)
(* Trimming of the head of a generic (SpecHead): remove_modules lists with *)
(* a compiled pattern that matches the start of a bare name                *)
(***************************************************************************)
\* re.compile(r"^My"): a pattern of the caller that trims names, not module paths
RE_MY == "^My"

MyGeneric_int == GenericAlias("typing._GenericAlias", MyGeneric, <<int>>, "")

HeadTypes ==
    {MyClass, MyGeneric, MyGeneric_int, typing_List(MyClass), typing_List(MyGeneric_int),
     builtins_list(MyClass), Optional(MyClass), Final(MyClass),
     GenericAlias("typing._GenericAlias", MyGeneric, <<MyClass>>, "")}

HeadKwargs ==
    Kwargs({"bogus"}, {}, {},
           { <<Pattern(RE_MY)>>, <<Module("tests.test_typenames"), Pattern(RE_MY)>>,
             DEFAULT_REMOVE_MODULES \o <<Pattern(RE_MY)>>, REMOVE_ALL_MODULES })

NextHead ==
    \/ \E t \in HeadTypes, kw \in HeadKwargs : typenames(t, None, kw)
    \/ Steps

SpecHead == Init /\ [][NextHead]_vars

\* the rules of c applied to s one after the other, as TypeNode applies them to its module
\* prefix and to its bare name
Trimmed(c, s) == sub_each(remove_modules_patterns(c), s)

\* C21: a generic rendered with a head has the rules of remove_modules applied to the
\* module prefix of the head and to the bare name of the head, as a TypeNode has them
\* applied to its module prefix and its bare name.
C21_HeadPrefixAndNameTrimmed ==
    pc = "done" =>
        \A g \in BracketedGenerics :
            LET h == GenericNode_head(g)
                args == [i \in 1..Len(h.arg_nodes) |-> Str(h.arg_nodes[i])]
            IN  Str(g) = Trimmed(g.config, h.origin_module_prefix)
                             \o Trimmed(g.config, h.origin_name)
                             \o "[" \o join(", ", args) \o "]"

(***************************************************************************)
(* Rendering call by call (SpecRender): pc is the call stack, one frame    *)
(* for typenames and one frame for each activation of node.__str__         *)
(***************************************************************************)
\* where a node object lives: under the root of the tree at a path of child indexes, or
\* nowhere in the tree
Attached(path) == [attached |-> TRUE, at |-> path]

Unattached == [attached |-> FALSE, at |-> << >>]

\* the node of the tree under n at path
RECURSIVE NodeAt(_, _)
NodeAt(n, path) ==
    IF path = << >> THEN n ELSE NodeAt(n.arg_nodes[Head(path)], Tail(path))

\* the tree under n with the node at path replaced by m
RECURSIVE ReplaceAt(_, _, _)
ReplaceAt(n, path, m) ==
    IF path = << >> THEN m
    ELSE [n EXCEPT !.arg_nodes[Head(path)] = ReplaceAt(@, Tail(path), m)]

\* GenericNode.__str__ that stores the arguments it renders in self.arg_nodes
self_after_str_in_place(n) == [n EXCEPT !.arg_nodes = GenericNode_head(n).arg_nodes]

\* the fields of self after GenericNode.__str__: only the local arg_nodes, a copy of
\* self.arg_nodes, is assigned
self_after_str(n) == n

\* the places of the children of n, n living at place
child_places(n, place) ==
    IF "arg_nodes" \in DOMAIN n
    THEN [i \in 1..Len(n.arg_nodes) |-> Attached(place.at \o <<i>>)]
    ELSE << >>

\* the local arg_nodes of n.__str__ when it joins the texts of its arguments: those of
\* the node, without the null member under the head Optional, or the one union
\* synthesized around the members that are left
local_arg_nodes(n) ==
    IF n.node = "GenericNode" THEN GenericNode_head(n).arg_nodes
    ELSE IF n.node = "ParamsListNode" THEN n.arg_nodes
    ELSE << >>

\* the activation of n.__str__: the local arg_nodes it will render and where each of them
\* lives; places are those of the children of n. A node the local list holds that is not
\* a child of n was made by this activation and lives nowhere in the tree
StrFrame(n, place, places) ==
    LET local == local_arg_nodes(n)
        kept == IF n.node = "GenericNode"
                THEN not_none([i \in 1..Len(places) |->
                                  [tp |-> n.arg_nodes[i].tp, place |-> places[i]]])
                ELSE << >>
        kept_places == [i \in 1..Len(kept) |-> kept[i].place]
    IN  [fn |-> "__str__", self |-> n, place |-> place, arg_nodes |-> local,
         arg_places |-> IF n.node # "GenericNode" \/ local = n.arg_nodes THEN places
                        ELSE IF local = not_none(n.arg_nodes) THEN kept_places
                        ELSE [i \in 1..Len(local) |-> Unattached],
         member_places |-> kept_places,
         texts |-> << >>]

\* what n.__str__ returns once its arguments are rendered as texts
str_text(n, texts) ==
    IF n.node = "TypeNode" THEN TypeNode_str(n)
    ELSE IF n.node = "LiteralNode" THEN LiteralNode_str(n)
    ELSE IF n.node = "ParamsListNode" THEN "[" \o join(", ", texts) \o "]"
    ELSE LET h == GenericNode_head(n)
         IN  IF h.ret THEN join(" | ", texts)
             ELSE process_module_prefix(n.config, h.origin_module_prefix)
                      \o h.origin_name \o "[" \o join(", ", texts) \o "]"

InitRender ==
    /\ pc = << >>
    /\ tp = None
    /\ config = None
    /\ kwargs = << >>
    /\ tree = None
    /\ result = ""

\* a caller enters typenames(t, **kw)
typenames_called(t, kw) ==
    /\ pc = << >>
    /\ pc' = << [fn |-> "typenames", at |-> "parse_type_tree"] >>
    /\ tp' = t
    /\ config' = None
    /\ kwargs' = kw
    /\ UNCHANGED <<tree, result>>

\* tree = parse_type_tree(tp=tp, config=config, **kwargs)
typenames_parses ==
    /\ pc = << [fn |-> "typenames", at |-> "parse_type_tree"] >>
    /\ parse_type_tree(tp, config, kwargs) # ValueError
    /\ tree' = parse_type_tree(tp, config, kwargs)
    /\ pc' = << [fn |-> "typenames", at |-> "str"] >>
    /\ UNCHANGED <<tp, config, kwargs, result>>

\* the configuration is rejected: ValueError leaves typenames
typenames_raises ==
    /\ pc = << [fn |-> "typenames", at |-> "parse_type_tree"] >>
    /\ parse_type_tree(tp, config, kwargs) = ValueError
    /\ pc' = << [fn |-> "typenames", at |-> "raised"] >>
    /\ UNCHANGED <<tp, config, kwargs, tree, result>>

\* str(tree) in typenames, or str(a) for the next a of the local arg_nodes of the running
\* __str__: a frame is pushed
str_called ==
    /\ pc # << >>
    /\ LET top == pc[Len(pc)]
       IN  \/ /\ top.fn = "typenames"
              /\ top.at = "str"
              /\ pc' = Append(pc, StrFrame(tree, Attached(<< >>),
                                           child_places(tree, Attached(<< >>))))
              /\ tree' = IF tree.node = "GenericNode" THEN self_after_str(tree) ELSE tree
           \/ /\ top.fn = "__str__"
              /\ Len(top.texts) < Len(top.arg_nodes)
              /\ LET a == top.arg_nodes[Len(top.texts) + 1]
                     place == top.arg_places[Len(top.texts) + 1]
                 IN  /\ pc' = Append(pc, StrFrame(a, place,
                                                  IF place.attached THEN child_places(a, place)
                                                  ELSE top.member_places))
                     /\ tree' = IF place.attached /\ a.node = "GenericNode"
                                THEN ReplaceAt(tree, place.at, self_after_str(a))
                                ELSE tree
    /\ UNCHANGED <<tp, config, kwargs, result>>

\* the running __str__ has rendered its arguments and returns its text to its caller
str_returns ==
    /\ pc # << >>
    /\ LET top == pc[Len(pc)]
       IN  /\ top.fn = "__str__"
           /\ Len(top.texts) = Len(top.arg_nodes)
           /\ LET caller == pc[Len(pc) - 1]
                  text == str_text(top.self, top.texts)
              IN  IF caller.fn = "typenames"
                  THEN /\ pc' = << [fn |-> "typenames", at |-> "done"] >>
                       /\ result' = text
                  ELSE /\ pc' = SubSeq(pc, 1, Len(pc) - 2)
                                    \o << [caller EXCEPT !.texts = Append(@, text)] >>
                       /\ result' = result
    /\ UNCHANGED <<tp, config, kwargs, tree>>

\* the caller has the text or the error; the tree is dropped
typenames_returns ==
    /\ pc \in { << [fn |-> "typenames", at |-> "done"] >>,
                << [fn |-> "typenames", at |-> "raised"] >> }
    /\ pc' = << >>
    /\ tp' = None
    /\ config' = None
    /\ kwargs' = << >>
    /\ tree' = None
    /\ result' = ""

MaxNesting == 2

\* type expressions nested k levels deep: a list around the level below, and a union with
\* a null member and two other members around that list
RECURSIVE NestedUnder(_)
NestedUnder(k) ==
    IF k = 0 THEN {int}
    ELSE NestedUnder(k - 1)
             \cup {typing_List(x) : x \in NestedUnder(k - 1)}
             \cup {Union(<<str, typing_List(x), NoneType>>) : x \in NestedUnder(k - 1)}

\* unions with a null member at one level and at two levels, in both spellings, under
\* generics, in a parameter list, and next to Literal values
RenderTypes ==
    NestedUnder(MaxNesting) \cup
    {int, Optional(int), Union(<<int, str, NoneType>>), OrUnion(<<int, str, NoneType>>),
     typing_List(Union(<<int, str, NoneType>>)),
     Union(<<int, typing_List(Union(<<int, str, NoneType>>)), NoneType>>),
     OrUnion(<<int, builtins_list(Union(<<int, str, NoneType>>)), NoneType>>),
     typing_Callable(<<Union(<<int, str, NoneType>>)>>, int),
     Optional(Literal(<<StrValue("s"), None>>)),
     typing_Callable(<<Literal(<<None>>), NoneType>>, Optional(int)),
     builtins_dict(str, Union(<<int, MyClass>>))}

RenderKwargs ==
    Kwargs({"bogus"}, {"or_operator", "optional_special_form", "union_special_form"},
           {}, { << >> })

NextRender ==
    \/ \E t \in RenderTypes, kw \in RenderKwargs : typenames_called(t, kw)
    \/ typenames_parses
    \/ typenames_raises
    \/ str_called
    \/ str_returns
    \/ typenames_returns

SpecRender == InitRender /\ [][NextRender]_vars

\* typenames returns the text of str(tree)
RenderedAsStr == (pc = << [fn |-> "typenames", at |-> "done"] >>) => result = Str(tree)

\* typenames has parsed the tree and str(tree) is running or has just returned
Rendering == pc # << >> /\ pc[1].at = "str"

Rendered == pc = << [fn |-> "typenames", at |-> "done"] >>

\* the children of node n as parse_type_tree builds them: one per argument, in order
OriginalChildren(n) ==
    [i \in 1..Len(get_args(n.tp)) |-> parse_type_tree(get_args(n.tp)[i], n.config, << >>)]

\* C22: rendering does not modify the tree: over every step of str(tree), from the call
\* to the return, the tree keeps the raw type, origin, configuration and ordered children
\* of every node (it stays the tree that parse_type_tree built); a node being rendered is
\* found unchanged at its place in the tree; a union rendered with the head Optional
\* still holds all its original children, the null member among them; and the union
\* synthesized for the re-wrap is no child of the union that synthesized it.
C22_RenderingLeavesTreeAlone ==
    /\ [][Rendering => tree' = tree]_vars
    /\ []((Rendering \/ Rendered) => tree = parse_type_tree(tp, config, kwargs))
    /\ [](\A i \in 2..Len(pc) :
              /\ pc[i].place.attached =>
                     /\ NodeAt(tree, pc[i].place.at) = pc[i].self
                     /\ (pc[i].self.node = "GenericNode" /\ OptionalHead(pc[i].self)) =>
                            /\ any_is_none_type(NodeAt(tree, pc[i].place.at).arg_nodes)
                            /\ NodeAt(tree, pc[i].place.at).arg_nodes
                                   = OriginalChildren(pc[i].self)
              /\ ~pc[i].place.attached =>
                     /\ pc[i - 1].place.attached
                     /\ \A j \in 1..Len(NodeAt(tree, pc[i - 1].place.at).arg_nodes) :
                            NodeAt(tree, pc[i - 1].place.at).arg_nodes[j] # pc[i].self)

\* the synthesized Union[int, str] of Optional[Union[int, str]] is being rendered, inside
\* the list of List[Optional[Union[int, str]]], and the union under the list still has its
\* three children
C22_Witness ==
    /\ Len(pc) = 5
    /\ tp = typing_List(Union(<<int, str, NoneType>>))
    /\ ~pc[4].place.attached
    /\ pc[3].texts = << >>
    /\ Len(pc[5].arg_nodes) = 0
    /\ Len(tree.arg_nodes[1].arg_nodes) = 3
    /\ tree.arg_nodes[1].arg_nodes[3].tp = NoneType

\* C23: is_none_type per node variant: on a TypeNode it is true exactly when the raw type
\* is NoneType, on a GenericNode it is false whatever its arguments, and on a
\* ParamsListNode or a LiteralNode the query raises NotImplementedError and gives no
\* value; so no node other than a TypeNode reports true.
C23_IsNoneTypePerVariant ==
    Rendering =>
        \A n \in Nodes(tree) :
            /\ n.node = "TypeNode" => (is_none_type(n) <=> n.tp = NoneType)
            /\ n.node = "GenericNode" => is_none_type(n) = FALSE
            /\ n.node \in {"ParamsListNode", "LiteralNode"} =>
                   is_none_type(n) = NotImplementedError

\* Callable[[Literal[None], None], Optional[int]] is parsed: the tree holds the four
\* variants, a LiteralNode of the value None and a TypeNode of NoneType among them
C23_Witness ==
    /\ Rendering
    /\ tp = typing_Callable(<<Literal(<<None>>), NoneType>>, Optional(int))
    /\ {n.node : n \in Nodes(tree)} = {"TypeNode", "GenericNode", "ParamsListNode", "LiteralNode"}
    /\ \E n \in Nodes(tree) : n.node = "LiteralNode" /\ n.tp = None
    /\ \E n \in Nodes(tree) : n.node = "TypeNode" /\ is_none_type(n)
    /\ \E n \in Nodes(tree) : n.node = "GenericNode" /\ any_is_none_type(n.arg_nodes)

\* the largest of a set of naturals, 0 for the empty set
Largest(S) == CHOOSE x \in S \cup {0} : \A y \in S : y <= x

\* the nesting depth of a type expression: 1 for an expression without arguments, one
\* more than its deepest argument (or item, for a parameter list) otherwise
RECURSIVE NestingDepth(_)
NestingDepth(t) ==
    LET parts == IF t.k = "alias" THEN t.args ELSE IF t.k = "list" THEN t.items ELSE << >>
        depths == {NestingDepth(parts[i]) : i \in 1..Len(parts)}
    IN  1 + Largest(depths)

\* the nodes on the longest path of the tree under n: the depth parse_type_tree recursed to
RECURSIVE TreeDepth(_)
TreeDepth(n) ==
    LET depths == IF "arg_nodes" \in DOMAIN n
                  THEN {TreeDepth(n.arg_nodes[i]) : i \in 1..Len(n.arg_nodes)}
                  ELSE {}
    IN  1 + Largest(depths)

\* n is a union rendered as Optional[...] around a synthesized union of its non-null members
Rewraps(n) ==
    /\ n.node = "GenericNode"
    /\ OptionalHead(n)
    /\ Cardinality({i \in 1..Len(n.arg_nodes) : n.arg_nodes[i].tp # NoneType}) > 1

\* the largest number of re-wrapping unions on one path of the tree under n
RECURSIVE RewrapDepth(_)
RewrapDepth(n) ==
    LET depths == IF "arg_nodes" \in DOMAIN n
                  THEN {RewrapDepth(n.arg_nodes[i]) : i \in 1..Len(n.arg_nodes)}
                  ELSE {}
    IN  (IF Rewraps(n) THEN 1 ELSE 0) + Largest(depths)

\* the activations of __str__ that str(n) makes: one for n and those of the arguments
\* it renders
RECURSIVE Activations(_)
Activations(node) ==
    CHOOSE count \in
        { LET local == local_arg_nodes(n)
              sum[i \in 0..Len(local)] ==
                  IF i = 0 THEN 1 ELSE sum[i - 1] + Activations(local[i])
          IN  sum[Len(local)] : n \in {node} } : TRUE

\* the activations that str(a) makes for the arguments a after the first `called`
ActivationsAfter(nodes, called) ==
    LET sum[i \in called..Len(nodes)] ==
            IF i = called THEN 0 ELSE sum[i - 1] + Activations(nodes[i])
    IN  sum[Len(nodes)]

\* the calls and returns of __str__ still to come in the running str(tree): for each
\* frame its own return and two steps for every activation of the arguments it has not
\* yet called
StepsLeft ==
    IF ~Rendering THEN 0
    ELSE IF Len(pc) = 1 THEN 2 * Activations(tree)
    ELSE LET called(i) == Len(pc[i].texts) + (IF i < Len(pc) THEN 1 ELSE 0)
             left(i) == 1 + 2 * ActivationsAfter(pc[i].arg_nodes, called(i))
             sum[i \in 1..Len(pc)] == IF i = 1 THEN 0 ELSE sum[i - 1] + left(i)
         IN  sum[Len(pc)]

\* a step of __str__ can be taken: a call of str(tree) or of str(a) for the next
\* argument, or the return of the running activation
CanStep ==
    \/ pc = << [fn |-> "typenames", at |-> "str"] >>
    \/ pc[Len(pc)].fn = "__str__" /\ Len(pc[Len(pc)].texts) <= Len(pc[Len(pc)].arg_nodes)

\* rendering comes to its return: while str(tree) runs a step can always be taken, and
\* every step leaves one step less to come
Terminates ==
    /\ [](Rendering => CanStep /\ StepsLeft > 0)
    /\ [][Rendering => StepsLeft' = StepsLeft - 1]_vars

\* parse_type_tree has recursed no deeper than the input is nested
ParseDepthBounded == (Rendering \/ Rendered) => TreeDepth(tree) <= NestingDepth(tp)

\* the union synthesized for Optional[...] has no null member, is rendered by the plain
\* union branch, and hands to str() its own children, each of them a node of the tree
SynthesizedIsPlainUnion ==
    \A i \in 2..Len(pc) :
        ~pc[i].place.attached =>
            /\ \A j \in 1..Len(pc[i].self.arg_nodes) : pc[i].self.arg_nodes[j].tp # NoneType
            /\ GenericNode_head(pc[i].self).origin_name \in {"Union", ""}
            /\ pc[i].arg_nodes = pc[i].self.arg_nodes
            /\ \A j \in 1..Len(pc[i].arg_places) : pc[i].arg_places[j].attached

\* C24 as stated: parse_type_tree and rendering terminate, the recursion is never deeper
\* than the nesting depth of the input plus one, and the union synthesized while
\* rendering Optional[...] has no null member, takes the plain union branch and
\* synthesizes no further union.
C24_DepthAtMostNestingPlusOne ==
    /\ Terminates
    /\ [](ParseDepthBounded /\ SynthesizedIsPlainUnion)
    /\ [](Rendering => Len(pc) - 1 <= NestingDepth(tp) + 1)

\* C24 amended: the same, with the recursion of rendering never deeper than the nesting
\* depth of the input plus the largest number of unions on one path of the tree that are
\* each rendered as Optional[...] around a synthesized union: every such union adds one
\* activation, so the depth stays under twice the nesting depth.
C24_DepthAtMostNestingPlusRewraps ==
    /\ Terminates
    /\ [](ParseDepthBounded /\ SynthesizedIsPlainUnion)
    /\ [](Rendering => /\ Len(pc) - 1 <= NestingDepth(tp) + RewrapDepth(tree)
                       /\ Len(pc) - 1 < 2 * NestingDepth(tp))

\* Union[str, List[Union[str, List[int], None]], None], nested five deep, is rendered
\* seven activations deep: each of its two unions has synthesized a union
C24_Witness ==
    /\ Len(pc) - 1 = 7
    /\ tp = Union(<<str, typing_List(Union(<<str, typing_List(int), NoneType>>)), NoneType>>)
    /\ kwargs = << >>
    /\ NestingDepth(tp) = 5
    /\ RewrapDepth(tree) = 2
    /\ ~pc[3].place.attached
    /\ ~pc[6].place.attached
    /\ pc[8].self.node = "TypeNode"

====
